---- MODULE Spec2Model ----
(***************************************************************************)
(* Navigation-lifecycle and action-safety subsystem of browser-commander   *)
(* (python): NetworkTracker, NavigationManager, PageTriggerManager and     *)
(* ActionContext, modelled as state machines.  One atomic action is one    *)
(* run of a handler or coroutine between two suspension points (awaits) of *)
(* the single-threaded asyncio event loop.                                 *)
(*                                                                         *)
(* Time is counted in units of 100 ms (the poll interval of                *)
(* wait_for_network_idle).  A sleeping coroutine resumes exactly when its  *)
(* deadline is reached: the clock does not advance past a due timer.       *)
(***************************************************************************)
EXTENDS Integers, Sequences, FiniteSets

VARIABLES
    now,                  \* time.time() * 1000, in units of 100 ms
    engine,               \* NetworkTracker.engine / NavigationManager.engine
    request_timeout,      \* NetworkTracker.request_timeout
    idle_timeout,         \* NetworkTracker.idle_timeout
    is_tracking,          \* NetworkTracker._is_tracking
    navigation_id,        \* NetworkTracker._navigation_id
    pending_requests,     \* NetworkTracker._pending_requests: key -> request
    request_start_times,  \* NetworkTracker._request_start_times: key -> time
    request_subs,         \* subscriptions of the tracker's handlers on the page
    wfi,                  \* the running wait_for_network_idle call (its locals)
    wfi_obs,              \* observations about that call (history, not program state)
    page_url,             \* page.url / page.current_url of the browser
    nav_subs,             \* subscriptions of _on_frame_navigated on the page
    is_listening,         \* NavigationManager._is_listening
    is_navigating,        \* NavigationManager._is_navigating
    last_url,             \* NavigationManager._last_url
    abort_controller,     \* NavigationManager._abort_controller: an Event, 0 is None
    events_set,           \* the asyncio.Event objects that are set
    events_made,          \* number of asyncio.Event objects allocated so far
    nav_listeners,        \* NavigationManager._listeners: event name -> callbacks
    network_tracker,      \* NavigationManager.network_tracker is not None
    nav_call,             \* the running navigate() call (its locals)
    ready_call,           \* the running wait_for_page_ready() call (its locals)
    nav_obs,              \* observations about the manager (history)
    triggers,             \* PageTriggerManager._triggers
    active_actions,       \* PageTriggerManager._active_actions
    background_tasks,     \* PageTriggerManager._background_tasks
    tasks,                \* the _check_triggers tasks created so far
    contexts,             \* the ActionContext objects created so far
    destroy_call,         \* the running PageTriggerManager.destroy() call
    cpu,                  \* the coroutine the event loop is running now
    trig_obs,             \* observations about the triggers (history)
    in_flight,            \* the page's requests that have started and not ended
    op_call               \* the call of a commander operation in progress

netVars == <<now, wfi, wfi_obs>>

navVars == <<page_url, nav_subs, is_listening, is_navigating, last_url,
             abort_controller, events_set, events_made, nav_listeners,
             network_tracker, nav_call, ready_call, nav_obs>>

trigVars == <<triggers, active_actions, background_tasks, tasks, contexts,
              destroy_call, cpu, trig_obs>>

trackerVars == <<engine, request_timeout, idle_timeout, is_tracking, navigation_id,
                 pending_requests, request_start_times, request_subs>>

(***************************************************************************)
(* Bounds of the model.                                                    *)
(***************************************************************************)
MaxTime == 4            \* the clock stops here
MaxTimeout == 3         \* largest timeout argument tried
MaxIdleTime == 2        \* largest idle_time argument tried
MaxRequestTimeout == 2  \* largest request_timeout a tracker is built with
MaxNavId == 2           \* cap of the navigation id counter
MaxUrlChanges == 2      \* URL changes a behaviour goes through
MaxTriggers == 2        \* page_trigger registrations in a behaviour
MaxWaitMs == 1          \* largest ctx.wait(ms) argument tried
MaxItems == 1           \* longest items list given to ctx.for_each
MaxDestroys == 2        \* destroy() calls in a behaviour

PollInterval == 1       \* asyncio.sleep(0.1): 100 ms

Engines == {"playwright", "selenium"}

(* A request URL is the pair <<scheme prefix, rest>>; startswith looks at  *)
(* the prefix.                                                             *)
Requests == {[method |-> "GET", url |-> <<"https:", "/a">>],
             [method |-> "POST", url |-> <<"https:", "/a">>],
             [method |-> "GET", url |-> <<"data:", "x">>],
             [method |-> "GET", url |-> <<"blob:", "y">>]}

StartsWith(url, prefix) == url[1] = prefix

(* f"{method}:{url}"; on selenium the method is always "GET". *)
GetRequestKey(eng, request) ==
    IF eng = "playwright"
    THEN <<request.method, request.url>>
    ELSE <<"GET", request.url>>

EmptyMap == [k \in {} |-> 0]

(* No operation of the commander (wait_for_navigation, verify_*, goto,    *)
(* click_button, a getter) has been called.                                *)
NoOp == [kind |-> "none"]

(* How many requests of each method and URL the page has in flight. *)
NoneInFlight == [request \in Requests |-> 0]

Restrict(f, S) == [k \in S |-> f[k]]

Put(f, k, v) == [x \in (DOMAIN f) \cup {k} |-> IF x = k THEN v ELSE f[x]]

NoWait == [pc |-> "none", caller |-> "none", timeout |-> 0, idle_time |-> 0,
           start_time |-> 0, current_nav_id |-> 0, wake |-> 0, result |-> FALSE]

NoObs == [window_dirty |-> FALSE, window |-> "none", nav_changed |-> FALSE,
          returned_at |-> 0, entry |-> "none"]

(* A page URL is a sequence of parts; a URL starts with another when the   *)
(* other is a prefix of it.                                                *)
UrlBlank == <<"about:blank">>

UrlA == <<"https://a">>

UrlAB == <<"https://a", "/b">>

PageUrls == {UrlBlank, UrlA, UrlAB}

IsPrefix(p, u) == Len(p) <= Len(u) /\ SubSeq(u, 1, Len(p)) = p

NoDestroy == [pc |-> "none", index |-> 0, ctx |-> 0, active_at_call |-> {},
              calls |-> 0]

NoTrigObs == [handled |-> 0, registered |-> 0]

Frames == {"main", "child"}

NoListeners == [on_navigation_start |-> <<>>, on_navigation_complete |-> <<>>,
                on_url_change |-> <<>>, on_page_ready |-> <<>>]

(* A navigate() call: where it is, its arguments, what it returned, whether *)
(* it called the on_navigation_complete listeners, what it raised, when it *)
(* was made and whether it returned later than its timeout after that.     *)
NoNavigate == [pc |-> "none", url |-> <<>>, timeout |-> 0, result |-> FALSE,
               complete_notified |-> FALSE, error |-> "none",
               started_at |-> 0, late |-> FALSE]

(* A wait_for_page_ready call: where it is, who made it, what it returned, *)
(* whether the tracker reported network idle to it and whether it called   *)
(* the on_page_ready listeners.                                            *)
NoReady == [pc |-> "none", caller |-> "none", timeout |-> 0, result |-> FALSE,
            tracker_idle |-> FALSE, page_ready_notified |-> FALSE]

NoNavObs == [url_changes |-> 0, generations |-> {}]

(* Who holds the event loop: nobody (between callbacks), a _check_triggers *)
(* task, or the destroy() call.                                            *)
Idle == [kind |-> "idle", id |-> 0]

Running(t) == [kind |-> "task", id |-> t]

Destroying == [kind |-> "destroy", id |-> 0]

Sleeping(w) == w.pc \in {"entry_sleep", "idle_sleep", "poll_sleep"}

InIdleWindow(w) == w.pc \in {"entry_sleep", "idle_sleep"}

(***************************************************************************)
(* NetworkTracker                                                          *)
(***************************************************************************)

(* What a change of the navigation id means for the running wait: recorded *)
(* for the properties, read by no action.                                  *)
ObserveNavChange ==
    wfi_obs' = IF Sleeping(wfi)
               THEN [wfi_obs EXCEPT !.nav_changed = TRUE,
                                    !.window_dirty = InIdleWindow(wfi) \/ @]
               ELSE wfi_obs

(* _on_request: the page's "request" event, delivered while subscribed. *)
OnRequest(request) ==
    /\ request_subs > 0
    /\ LET key == GetRequestKey(engine, request)
       IN IF StartsWith(request.url, "data:") \/ StartsWith(request.url, "blob:")
          THEN UNCHANGED <<pending_requests, request_start_times>>
          ELSE /\ pending_requests' = Put(pending_requests, key, request)
               /\ request_start_times' = Put(request_start_times, key, now)
    /\ UNCHANGED <<navVars, trigVars>>
    /\ UNCHANGED <<now, engine, request_timeout, idle_timeout, is_tracking,
                   navigation_id, request_subs, wfi, wfi_obs>>
    /\ UNCHANGED op_call

(* _on_request_end: the page's "requestfinished" / "requestfailed" event. *)
OnRequestEnd(request) ==
    /\ request_subs > 0
    /\ LET key == GetRequestKey(engine, request)
       IN IF key \notin DOMAIN pending_requests
          THEN UNCHANGED <<pending_requests, request_start_times>>
          ELSE /\ pending_requests' =
                      Restrict(pending_requests, (DOMAIN pending_requests) \ {key})
               /\ request_start_times' =
                      Restrict(request_start_times, (DOMAIN request_start_times) \ {key})
    /\ UNCHANGED <<navVars, trigVars>>
    /\ UNCHANGED <<now, engine, request_timeout, idle_timeout, is_tracking,
                   navigation_id, request_subs, wfi, wfi_obs>>
    /\ UNCHANGED op_call

StartTrackingUnguarded ==
    /\ navigation_id < MaxNavId
    /\ is_tracking' = TRUE
    /\ navigation_id' = navigation_id + 1
    /\ pending_requests' = EmptyMap
    /\ request_start_times' = EmptyMap
    /\ request_subs' = IF engine = "playwright" THEN request_subs + 1
                       ELSE request_subs
    /\ ObserveNavChange
    /\ UNCHANGED <<navVars, trigVars>>
    /\ UNCHANGED <<now, engine, request_timeout, idle_timeout, wfi>>
    /\ UNCHANGED in_flight
    /\ UNCHANGED op_call

StartTracking ==
    /\ IF is_tracking
       THEN UNCHANGED <<is_tracking, navigation_id, pending_requests,
                        request_start_times, request_subs, wfi_obs>>
       ELSE /\ navigation_id < MaxNavId
            /\ is_tracking' = TRUE
            /\ navigation_id' = navigation_id + 1
            /\ pending_requests' = EmptyMap
            /\ request_start_times' = EmptyMap
            /\ request_subs' = IF engine = "playwright" THEN request_subs + 1
                               ELSE request_subs
            /\ ObserveNavChange
    /\ UNCHANGED <<navVars, trigVars>>
    /\ UNCHANGED <<now, engine, request_timeout, idle_timeout, wfi>>
    /\ UNCHANGED in_flight
    /\ UNCHANGED op_call

StopTracking ==
    /\ IF ~is_tracking
       THEN UNCHANGED <<is_tracking, pending_requests, request_start_times,
                        request_subs>>
       ELSE /\ is_tracking' = FALSE
            /\ request_subs' = IF engine = "playwright" THEN request_subs - 1
                               ELSE request_subs
            /\ pending_requests' = EmptyMap
            /\ request_start_times' = EmptyMap
    /\ UNCHANGED <<navVars, trigVars>>
    /\ UNCHANGED <<now, engine, request_timeout, idle_timeout, navigation_id,
                   wfi, wfi_obs>>
    /\ UNCHANGED in_flight
    /\ UNCHANGED op_call

Reset ==
    /\ navigation_id < MaxNavId
    /\ navigation_id' = navigation_id + 1
    /\ pending_requests' = EmptyMap
    /\ request_start_times' = EmptyMap
    /\ ObserveNavChange
    /\ UNCHANGED <<navVars, trigVars>>
    /\ UNCHANGED <<now, engine, request_timeout, idle_timeout, is_tracking,
                   request_subs, wfi>>
    /\ UNCHANGED in_flight
    /\ UNCHANGED op_call

(***************************************************************************)
(* NetworkTracker.wait_for_network_idle                                    *)
(***************************************************************************)

Returned(w, value) == [w EXCEPT !.pc = "returned", !.result = value]

SleepForNothing(w, pc, duration) == [w EXCEPT !.pc = pc, !.wake = now]

SleepFor(w, pc, duration) == [w EXCEPT !.pc = pc, !.wake = now + duration]

IdleConfirmedIgnoringNavigation(w) == DOMAIN pending_requests = {}

(* Lines 187-190 and 219-222: the check made when sleep(idle_time) is over. *)
IdleConfirmed(w) ==
    /\ DOMAIN pending_requests = {}
    /\ navigation_id = w.current_nav_id

(* Line 196: the budget check at the head of each iteration. *)
BudgetExhausted(w) == now - w.start_time >= w.timeout

(* Line 210: a request older than request_timeout is stale. *)
IsStale(key) == now - request_start_times[key] > request_timeout

StaleKeys == {key \in DOMAIN request_start_times : IsStale(key)}

(* Lines 194-225: one iteration of the poll loop, up to its first await. *)
PollIteration(w) ==
    IF BudgetExhausted(w) \/ navigation_id # w.current_nav_id
    THEN /\ wfi' = Returned(w, FALSE)
         /\ UNCHANGED <<pending_requests, request_start_times>>
    ELSE /\ pending_requests' =
                Restrict(pending_requests, (DOMAIN pending_requests) \ StaleKeys)
         /\ request_start_times' =
                Restrict(request_start_times, (DOMAIN request_start_times) \ StaleKeys)
         /\ wfi' = IF DOMAIN pending_requests' = {}
                   THEN SleepFor(w, "idle_sleep", w.idle_time)
                   ELSE SleepFor(w, "poll_sleep", PollInterval)

(* Lines 178-186: the call, up to its first await. *)
EnterWait(caller, timeout, idle_time) ==
    LET w == [NoWait EXCEPT !.caller = caller, !.timeout = timeout,
                            !.idle_time = idle_time, !.start_time = now,
                            !.current_nav_id = navigation_id]
    IN IF DOMAIN pending_requests = {}
       THEN /\ wfi' = SleepFor(w, "entry_sleep", idle_time)
            /\ UNCHANGED <<pending_requests, request_start_times>>
       ELSE PollIteration(w)

(* The coroutine resumes from the await it sleeps in. *)
ResumeWait ==
    /\ Sleeping(wfi)
    /\ now >= wfi.wake
    /\ CASE wfi.pc = "entry_sleep" ->
              IF IdleConfirmed(wfi)
              THEN /\ wfi' = Returned(wfi, TRUE)
                   /\ UNCHANGED <<pending_requests, request_start_times>>
              ELSE PollIteration(wfi)
         [] wfi.pc = "idle_sleep" ->
              /\ wfi' = IF IdleConfirmed(wfi)
                        THEN Returned(wfi, TRUE)
                        ELSE SleepFor(wfi, "poll_sleep", PollInterval)
              /\ UNCHANGED <<pending_requests, request_start_times>>
         [] wfi.pc = "poll_sleep" -> PollIteration(wfi)

(* History of the call.  An idle window is one sleep(idle_time): it is     *)
(* clean when no request was pending while time passed in it, none is      *)
(* pending at its end and the navigation id did not change in it.  A       *)
(* return is dated, and so is what the call found at its entry.            *)
ObserveWait ==
    wfi_obs' = [wfi_obs EXCEPT
                  !.window = IF InIdleWindow(wfi)
                             THEN (IF wfi_obs.window_dirty
                                      \/ DOMAIN pending_requests # {}
                                   THEN "dirty" ELSE "clean")
                             ELSE @,
                  !.window_dirty = IF InIdleWindow(wfi') THEN FALSE ELSE @,
                  !.returned_at = IF wfi'.pc = "returned" THEN now ELSE @,
                  !.entry = IF ~Sleeping(wfi)
                            THEN (IF DOMAIN pending_requests = {}
                                  THEN "empty" ELSE "busy")
                            ELSE @]

(* wait_for_network_idle(timeout, idle_time) called by user code. *)
WaitForNetworkIdle(timeout, idle_time) ==
    /\ wfi.pc = "none"
    /\ EnterWait("user", timeout, idle_time)
    /\ ObserveWait
    /\ UNCHANGED <<navVars, trigVars>>
    /\ UNCHANGED <<now, engine, request_timeout, idle_timeout, is_tracking,
                   navigation_id, request_subs>>
    /\ UNCHANGED in_flight
    /\ UNCHANGED op_call

(* wait_for_network_idle(timeout) with idle_time None: idle_timeout is used. *)
WaitForNetworkIdleDefault(timeout) == WaitForNetworkIdle(timeout, idle_timeout)

WaitForNetworkIdleResume ==
    /\ wfi.caller = "user"
    /\ ResumeWait
    /\ ObserveWait
    /\ UNCHANGED <<navVars, trigVars>>
    /\ UNCHANGED <<now, engine, request_timeout, idle_timeout, is_tracking,
                   navigation_id, request_subs>>
    /\ UNCHANGED in_flight
    /\ UNCHANGED op_call

(* A timer or a set signal that must be served before time passes. *)
WaitDue(ctx) ==
    /\ ctx.apc = "wait"
    /\ \/ ctx.remaining = 0
       \/ ctx.action.arg > 0 /\ ctx.abort_signal \in events_set

(* The clock advances unless a timer is due.  An idle window through which *)
(* a request stays pending while time passes is no longer clean.           *)
Tick ==
    /\ now < MaxTime
    /\ ~(Sleeping(wfi) /\ wfi.wake <= now)
    /\ now' = now + 1
    /\ wfi_obs' = IF InIdleWindow(wfi) /\ DOMAIN pending_requests # {}
                  THEN [wfi_obs EXCEPT !.window_dirty = TRUE]
                  ELSE wfi_obs
    /\ UNCHANGED <<navVars, trigVars, trackerVars, wfi>>
    /\ UNCHANGED in_flight
    /\ UNCHANGED op_call

(***************************************************************************)
(* A NetworkTracker on its own: built by create_network_tracker, started   *)
(* and stopped by its owner, fed by the page's request events.             *)
(***************************************************************************)
NavAbsent ==
    /\ page_url = UrlBlank
    /\ nav_subs = 0
    /\ is_listening = FALSE
    /\ is_navigating = FALSE
    /\ last_url = <<>>
    /\ abort_controller = 0
    /\ events_set = {}
    /\ events_made = 0
    /\ nav_listeners = NoListeners
    /\ network_tracker = FALSE
    /\ nav_call = NoNavigate
    /\ ready_call = NoReady
    /\ nav_obs = NoNavObs

TrigAbsent ==
    /\ triggers = <<>>
    /\ active_actions = <<>>
    /\ background_tasks = {}
    /\ tasks = <<>>
    /\ contexts = <<>>
    /\ destroy_call = NoDestroy
    /\ cpu = Idle
    /\ trig_obs = NoTrigObs

InitNet ==
    /\ now = 0
    /\ engine \in Engines
    /\ request_timeout \in 1..MaxRequestTimeout
    /\ idle_timeout \in {1}
    /\ is_tracking = FALSE
    /\ navigation_id = 0
    /\ pending_requests = EmptyMap
    /\ request_start_times = EmptyMap
    /\ request_subs = 0
    /\ wfi = NoWait
    /\ wfi_obs = NoObs
    /\ NavAbsent
    /\ TrigAbsent
    /\ in_flight = NoneInFlight
    /\ op_call = NoOp

NextNet ==
    \/ \E request \in Requests : OnRequest(request) /\ UNCHANGED in_flight
    \/ \E request \in Requests : OnRequestEnd(request) /\ UNCHANGED in_flight
    \/ StartTracking
    \/ StopTracking
    \/ Reset
    \/ \E timeout \in 0..MaxTimeout, idle_time \in 0..MaxIdleTime :
          WaitForNetworkIdle(timeout, idle_time)
    \/ \E timeout \in 0..MaxTimeout : WaitForNetworkIdleDefault(timeout)
    \/ WaitForNetworkIdleResume
    \/ Tick

vars == <<now, trackerVars, wfi, wfi_obs, navVars, trigVars, in_flight, op_call>>

SpecNet == InitNet /\ [][NextNet]_vars

(***************************************************************************)
(* The page's requests and the tracker that follows them: the page starts  *)
(* and ends requests, several of them may share one method and URL, and    *)
(* every start and end is delivered to the tracker's handlers when it is   *)
(* subscribed (start_tracking subscribes on playwright only).              *)
(***************************************************************************)
MaxInFlight == 2

Ignored(request) ==
    StartsWith(request.url, "data:") \/ StartsWith(request.url, "blob:")

RequestStarts(request) ==
    /\ in_flight[request] < MaxInFlight
    /\ in_flight' = [in_flight EXCEPT ![request] = @ + 1]
    /\ IF request_subs > 0
       THEN OnRequest(request)
       ELSE UNCHANGED <<now, trackerVars, wfi, wfi_obs, navVars, trigVars, op_call>>

RequestEnds(request) ==
    /\ in_flight[request] > 0
    /\ in_flight' = [in_flight EXCEPT ![request] = @ - 1]
    /\ IF request_subs > 0
       THEN OnRequestEnd(request)
       ELSE UNCHANGED <<now, trackerVars, wfi, wfi_obs, navVars, trigVars, op_call>>

InitReq ==
    /\ now = 0
    /\ engine \in Engines
    /\ request_timeout \in 1..MaxRequestTimeout
    /\ idle_timeout \in {1}
    /\ is_tracking = TRUE
    /\ navigation_id = 1
    /\ pending_requests = EmptyMap
    /\ request_start_times = EmptyMap
    /\ request_subs = IF engine = "playwright" THEN 1 ELSE 0
    /\ wfi = NoWait
    /\ wfi_obs = NoObs
    /\ NavAbsent
    /\ TrigAbsent
    /\ in_flight = NoneInFlight
    /\ op_call = NoOp

NextReq ==
    \/ \E request \in Requests : RequestStarts(request)
    \/ \E request \in Requests : RequestEnds(request)

SpecReq == InitReq /\ [][NextReq]_vars

InFlightKeys ==
    {GetRequestKey(engine, request) :
        request \in {r \in Requests : ~Ignored(r) /\ in_flight[r] > 0}}

\* C11: while the tracker is tracking and subscribed to the page's request
\* events, a request key (method and URL, data: and blob: URLs left out) is
\* in the pending set exactly when a request with that method and URL has
\* started and has not yet finished or failed, also when several requests
\* in flight share one method and URL.
C11_PendingIffInFlight ==
    (is_tracking /\ request_subs > 0)
        => DOMAIN pending_requests = InFlightKeys

(***************************************************************************)
(* Properties of wait_for_network_idle (SpecNet)                           *)
(***************************************************************************)

\* C1: wait_for_network_idle returns true if and only if the pending set was
\* empty continuously for idle_time (a clean idle window) with no reset or
\* navigation-id change in that window; otherwise it returns false.
C1_TrueIffCleanIdleWindow ==
    wfi.pc = "returned" => (wfi.result = (wfi_obs.window = "clean"))

\* C8: a call during which the navigation id changed (reset, or stop_tracking
\* then start_tracking) returns false, also when the pending set is empty.
C8_NavChangeFailsWait ==
    (wfi.pc = "returned" /\ wfi_obs.nav_changed) => wfi.result = FALSE

\* C8 witness: the id changed while the call slept, the pending set is empty,
\* and the call has returned false before its budget was used up.
C8_Witness ==
    /\ wfi.pc = "returned"
    /\ wfi_obs.nav_changed
    /\ wfi.result = FALSE
    /\ DOMAIN pending_requests = {}
    /\ wfi_obs.returned_at - wfi.start_time < wfi.timeout

\* C9: the budget is re-checked at each iteration, and the call never returns
\* true after more than timeout has passed since it was made.
C9_NeverTrueAfterTimeout ==
    (wfi.pc = "returned" /\ wfi.result = TRUE)
        => wfi_obs.returned_at - wfi.start_time <= wfi.timeout

\* C13: a call of wait_for_network_idle that finds the pending set empty at
\* its entry does not return true before idle_time has passed since the
\* entry, and it returns true only if the pending set is empty and the
\* navigation id is the one captured at entry at the moment it returns.
C13_EntryIdleWaitsIdleTime ==
    [][(/\ wfi.pc # "returned"
        /\ wfi'.pc = "returned"
        /\ wfi'.result = TRUE
        /\ wfi_obs'.entry = "empty")
          => (/\ now - wfi.start_time >= wfi.idle_time
              /\ DOMAIN pending_requests = {}
              /\ navigation_id = wfi.current_nav_id)]_vars

\* C13 witness: a call that found the pending set empty at entry has returned
\* true exactly idle_time (more than nothing) after its entry.
C13_Witness ==
    /\ wfi.pc = "returned"
    /\ wfi.result = TRUE
    /\ wfi_obs.entry = "empty"
    /\ wfi.idle_time > 0
    /\ wfi_obs.returned_at - wfi.start_time = wfi.idle_time

(* The steps of a call in which it looks whether the pending set is empty  *)
(* without having purged first: its entry (line 185) and its resumption    *)
(* from sleep(idle_time) (lines 187-190 and 219-222).                      *)
ChecksIdleUnpurged ==
    /\ wfi' # wfi
    /\ wfi.pc \in {"none", "entry_sleep", "idle_sleep"}

\* C12: before every idle check of wait_for_network_idle, the first one at
\* entry included, the requests older than request_timeout have been purged:
\* no idle check is made while a stale request is in the pending set.
C12_PurgedBeforeEveryIdleCheck ==
    [][ChecksIdleUnpurged => StaleKeys = {}]_vars

(***************************************************************************)
(* make_url_condition, page_trigger                                        *)
(***************************************************************************)

(* Conditions given to page_trigger: a plain string, a function of the URL *)
(* (given by the URLs it accepts), or none at all.                         *)
PlainCondition(pattern) == [kind |-> "plain", pattern |-> pattern, urls |-> {}]

CallableCondition(urls) == [kind |-> "callable", pattern |-> <<>>, urls |-> urls]

NoCondition == [kind |-> "none", pattern |-> <<>>, urls |-> {}]

(* The predicate make_url_condition builds (a callable is used as it is). *)
Matches(condition, url) ==
    CASE condition.kind = "callable" -> url \in condition.urls
      [] condition.kind = "plain" ->
             url = condition.pattern \/ IsPrefix(condition.pattern, url)
      [] OTHER -> FALSE

(* What a trigger's action does with its context: register a cleanup       *)
(* callback, optionally await something that ignores the abort signal      *)
(* (pre_busy), then make one call: ctx.wait(arg), ctx.for_each(items of    *)
(* length arg, fn) with an fn that awaits, raise an error, or nothing.     *)
(* The cleanup is none, one plain callback ("sync"), one callback that     *)
(* returns a coroutine ("async"), or a callback that raises followed by a  *)
(* plain one ("failing").                                                  *)
Action(pre_busy, op, arg, cleanup) ==
    [pre_busy |-> pre_busy, op |-> op, arg |-> arg, cleanup |-> cleanup]

NoAction == Action(FALSE, "missing", 0, "none")

TriggerConfigs ==
    {[condition |-> PlainCondition(UrlA), name |-> "wait",
      action |-> Action(FALSE, "wait", MaxWaitMs, "none")],
     [condition |-> CallableCondition({UrlAB}), name |-> "each",
      action |-> Action(TRUE, "for_each", MaxItems, "async")],
     [condition |-> PlainCondition(UrlAB), name |-> "raise",
      action |-> Action(TRUE, "raise", 0, "failing")],
     [condition |-> NoCondition, name |-> "invalid",
      action |-> Action(FALSE, "none", 0, "sync")],
     [condition |-> PlainCondition(UrlA), name |-> "no_action",
      action |-> NoAction]}

(* page_trigger(config): ValueError when the condition or the action is    *)
(* missing, else the trigger is appended.                                  *)
PageTrigger(config) ==
    /\ cpu = Idle
    /\ IF config.condition.kind = "none" \/ config.action.op = "missing"
       THEN UNCHANGED <<triggers, tasks, trig_obs>>
       ELSE /\ trig_obs.registered < MaxTriggers
            /\ trig_obs' = [trig_obs EXCEPT !.registered = @ + 1]
            /\ triggers' = Append(triggers, config)
            /\ tasks' = [t \in DOMAIN tasks |->
                           IF tasks[t].pc = "done" THEN tasks[t]
                           ELSE [tasks[t] EXCEPT !.list_changed = TRUE]]
    /\ UNCHANGED <<active_actions, background_tasks, contexts, destroy_call, cpu>>
    /\ UNCHANGED <<navVars, netVars, trackerVars>>
    /\ UNCHANGED in_flight
    /\ UNCHANGED op_call

(***************************************************************************)
(* PageTriggerManager._on_url_change                                       *)
(***************************************************************************)

Range(seq) == {seq[i] : i \in DOMAIN seq}

PtmSubscribed == "ptm" \in Range(nav_listeners.on_url_change)

StopsNothing == {}

(* Lines 251-252: the abort signals of all active actions are set. *)
ActiveSignals == {contexts[c].abort_signal : c \in Range(active_actions)}

RunInline(url) ==
    [url |-> url, pc |-> "loop", index |-> 1, ctx |-> 0,
     snapshot |-> triggers, invoked |-> <<>>, list_changed |-> FALSE]

(* Line 255: asyncio.create_task(self._check_triggers(new_url)); the task  *)
(* is scheduled, nothing of it has run.                                    *)
NewTask(url) ==
    [url |-> url, pc |-> "created", index |-> 0, ctx |-> 0,
     snapshot |-> triggers, invoked |-> <<>>, list_changed |-> FALSE]

(* The contexts that have not ended when the handler is called. *)
RunningContexts ==
    {c \in DOMAIN contexts : contexts[c].apc # "ended"}

(* Lines 246-257: stop the active actions, schedule _check_triggers(url). *)
PtmOnUrlChange(new_url) ==
    /\ tasks' = Append(tasks, NewTask(new_url))
    /\ background_tasks' = background_tasks \cup {Len(tasks) + 1}
    /\ contexts' = [c \in DOMAIN contexts |->
                      [contexts[c] EXCEPT
                         !.nav_seen = @ \/ c \in RunningContexts]]
    /\ trig_obs' = [trig_obs EXCEPT !.handled = @ + 1]
    /\ UNCHANGED <<triggers, active_actions, destroy_call, cpu>>

(***************************************************************************)
(* NavigationManager                                                       *)
(***************************************************************************)

ControllerKept == abort_controller

(* Lines 107-109: the current signal is set and a new Event replaces it. *)
ControllerAfterUrlChange ==
    IF abort_controller # 0 THEN events_made + 1 ELSE abort_controller

FiredByUrlChange == IF abort_controller # 0 THEN {abort_controller} ELSE {}

(* _on_url_change: lines 99-119, with the listeners it calls. *)
OnUrlChange(new_url) ==
    /\ nav_obs.url_changes < MaxUrlChanges
    /\ last_url' = new_url
    /\ abort_controller' = ControllerAfterUrlChange
    /\ events_made' = IF abort_controller # 0 THEN events_made + 1 ELSE events_made
    /\ is_navigating' = TRUE
    /\ nav_obs' = [nav_obs EXCEPT !.url_changes = @ + 1,
                                  !.generations = @ \cup {abort_controller'}]
    /\ IF PtmSubscribed
       THEN /\ events_set' = events_set \cup FiredByUrlChange \cup ActiveSignals
            /\ PtmOnUrlChange(new_url)
       ELSE /\ events_set' = events_set \cup FiredByUrlChange
            /\ UNCHANGED trigVars

HandlesEveryFrame(frame, new_url) == TRUE

(* Lines 92-96: only the main frame, and only a URL other than _last_url. *)
HandlesFrame(frame, new_url) ==
    /\ frame = "main"
    /\ new_url # last_url

(* The browser navigates a frame and emits "framenavigated"; the handler   *)
(* _on_frame_navigated (lines 89-97) runs if it is subscribed.             *)
FrameEmitted(frame, url) ==
    /\ cpu = Idle
    /\ page_url' = IF frame = "main" THEN url ELSE page_url
    /\ IF nav_subs > 0 /\ HandlesFrame(frame, page_url')
       THEN OnUrlChange(page_url')
       ELSE UNCHANGED <<last_url, abort_controller, events_made, events_set,
                        is_navigating, nav_obs, trigVars>>
    /\ UNCHANGED <<nav_subs, is_listening, nav_listeners, network_tracker,
                   nav_call, ready_call>>
    /\ UNCHANGED <<netVars, trackerVars>>
    /\ UNCHANGED in_flight

FrameNavigated(frame, url) ==
    /\ FrameEmitted(frame, url)
    /\ UNCHANGED op_call

(* start_listening: lines 56-69. *)
StartListening ==
    /\ cpu = Idle
    /\ IF is_listening
       THEN UNCHANGED <<is_listening, last_url, abort_controller, events_made,
                        nav_subs, nav_obs>>
       ELSE /\ events_made < MaxUrlChanges + 2
            /\ is_listening' = TRUE
            /\ last_url' = page_url
            /\ abort_controller' = events_made + 1
            /\ events_made' = events_made + 1
            /\ nav_subs' = IF engine = "playwright" THEN nav_subs + 1 ELSE nav_subs
            /\ nav_obs' = [nav_obs EXCEPT !.generations = @ \cup {abort_controller'}]
    /\ UNCHANGED <<page_url, is_navigating, events_set, nav_listeners,
                   network_tracker, nav_call, ready_call>>
    /\ UNCHANGED <<trigVars, netVars, trackerVars>>
    /\ UNCHANGED in_flight
    /\ UNCHANGED op_call

(* stop_listening: lines 71-81. *)
StopListening ==
    /\ cpu = Idle
    /\ IF ~is_listening
       THEN UNCHANGED <<is_listening, nav_subs>>
       ELSE /\ is_listening' = FALSE
            /\ nav_subs' = IF engine = "playwright" THEN nav_subs - 1 ELSE nav_subs
    /\ UNCHANGED <<page_url, is_navigating, last_url, abort_controller, events_set,
                   events_made, nav_listeners, network_tracker, nav_call,
                   ready_call, nav_obs>>
    /\ UNCHANGED <<trigVars, netVars, trackerVars>>
    /\ UNCHANGED in_flight
    /\ UNCHANGED op_call

(***************************************************************************)
(* ActionContext                                                           *)
(***************************************************************************)

NewContext(c, t, trigger, url) ==
    [url |-> url, trigger_name |-> trigger.name, abort_signal |-> events_made + 1,
     cleanup_callbacks |-> CASE trigger.action.cleanup = "none" -> <<>>
                             [] trigger.action.cleanup = "failing" ->
                                    <<"raises", "sync">>
                             [] OTHER -> <<trigger.action.cleanup>>,
     action |-> trigger.action, task |-> t, apc |-> "start", remaining |-> 0,
     item |-> 0,
     \* history
     nav_seen |-> FALSE, cleanups |-> 0, outcome |-> "none",
     set_at_end |-> FALSE, cleared |-> FALSE]

(* is_stopped: lines 142-144. *)
IsStopped(ctx) == ctx.abort_signal \in events_set

(* The ctx call of the action has ended: normally ("completed"), with      *)
(* ActionStoppedError ("stopped") or with another Exception ("raised").    *)
CallEnded(ctx, outcome) ==
    [ctx EXCEPT !.apc = "finally", !.outcome = outcome,
                !.set_at_end = ctx.abort_signal \in events_set]

(* wait(ms), lines 160-169, up to its await: the wait for the signal is    *)
(* over at once when the signal is set and ms > 0; wait_for with a timeout *)
(* <= 0 cancels it unstarted and times out.                                *)
EnterCtxWait(ctx) ==
    IF ctx.action.arg > 0 /\ ctx.abort_signal \in events_set
    THEN CallEnded(ctx, "stopped")
    ELSE [ctx EXCEPT !.apc = "wait", !.remaining = ctx.action.arg]

(* for_each, lines 188-193: before each item check_stopped, then fn. *)
ForEachNext(c, ctx) ==
    IF ctx.item = ctx.action.arg
    THEN CallEnded(ctx, "completed")
    ELSE IF IsStopped(ctx)
         THEN CallEnded(ctx, "stopped")
         ELSE [ctx EXCEPT !.apc = "fn"]

StopsAtAnyStatement(c, ctx) ==
    IF IsStopped(ctx) THEN CallEnded(ctx, "stopped")
    ELSE [ctx EXCEPT !.apc = "finally"]

(* The action makes its ctx call. *)
CallOp(c, ctx) ==
    CASE ctx.action.op = "wait" -> EnterCtxWait(ctx)
      [] ctx.action.op = "for_each" -> ForEachNext(c, ctx)
      [] ctx.action.op = "raise" -> CallEnded(ctx, "raised")
      [] OTHER -> [ctx EXCEPT !.apc = "finally"]

(* The action runs from its start to its first await. *)
StartAction(c, ctx) ==
    IF ctx.action.pre_busy THEN [ctx EXCEPT !.apc = "busy"] ELSE CallOp(c, ctx)

(* The awaits of an action that can be resumed now. *)
CanResume(ctx) ==
    CASE ctx.apc = "busy" -> TRUE
      [] ctx.apc = "fn" -> TRUE
      [] ctx.apc = "cleanup" -> TRUE
      [] ctx.apc = "wait" ->
             \/ ctx.remaining = 0
             \/ ctx.action.arg > 0 /\ ctx.abort_signal \in events_set
      [] OTHER -> FALSE

(* The action resumes from its await and runs to the next one. *)
ResumeAction(c, ctx, by_signal) ==
    CASE ctx.apc = "busy" -> CallOp(c, ctx)
      [] ctx.apc = "fn" -> ForEachNext(c, [ctx EXCEPT !.item = @ + 1])
      [] ctx.apc = "wait" ->
             IF by_signal THEN CallEnded(ctx, "stopped")
             ELSE CallEnded(ctx, "completed")
      [] OTHER -> ctx

(***************************************************************************)
(* PageTriggerManager._check_triggers, _run_trigger                        *)
(***************************************************************************)

RemoveFirst(seq, x) ==
    IF x \notin Range(seq) THEN seq
    ELSE LET i == CHOOSE k \in DOMAIN seq :
                     seq[k] = x /\ \A j \in 1..(k - 1) : seq[j] # x
         IN SubSeq(seq, 1, i - 1) \o SubSeq(seq, i + 1, Len(seq))

BreakAfterFirstMatch(index) == Len(triggers) + 1

(* The for loop of line 265 goes on with the next trigger of the list. *)
NextIndex(index) == index + 1

(* The event loop starts a scheduled _check_triggers task; tasks start in *)
(* the order in which they were created.                                   *)
TaskStart(t) ==
    /\ cpu = Idle
    /\ tasks[t].pc = "created"
    /\ \A u \in 1..(t - 1) : tasks[u].pc # "created"
    /\ tasks' = [tasks EXCEPT ![t].pc = "loop", ![t].index = 1]
    /\ cpu' = Running(t)
    /\ UNCHANGED <<triggers, active_actions, background_tasks, contexts,
                   destroy_call, trig_obs>>
    /\ UNCHANGED <<navVars, netVars, trackerVars>>
    /\ UNCHANGED in_flight
    /\ UNCHANGED op_call

(* Lines 265-268 and 277-292: the loop takes the trigger at its index; on  *)
(* a match _run_trigger makes a context with a new Event, appends it to    *)
(* the active actions and calls the action.  Past the end the task is done *)
(* and leaves the background tasks.                                        *)
TaskLoop(t) ==
    /\ cpu = Running(t)
    /\ tasks[t].pc = "loop"
    /\ LET task == tasks[t]
           c == Len(contexts) + 1
       IN IF task.index > Len(triggers)
          THEN /\ tasks' = [tasks EXCEPT ![t].pc = "done"]
               /\ background_tasks' = background_tasks \ {t}
               /\ cpu' = Idle
               /\ UNCHANGED <<active_actions, contexts, events_made>>
          ELSE IF ~Matches(triggers[task.index].condition, task.url)
          THEN /\ tasks' = [tasks EXCEPT ![t].index = NextIndex(task.index)]
               /\ UNCHANGED <<background_tasks, cpu, active_actions, contexts,
                              events_made>>
          ELSE LET ctx == StartAction(c, NewContext(c, t, triggers[task.index],
                                                    task.url))
               IN /\ contexts' = Append(contexts, ctx)
                  /\ active_actions' = Append(active_actions, c)
                  /\ events_made' = events_made + 1
                  /\ tasks' = [tasks EXCEPT
                                 ![t].pc = "action", ![t].ctx = c,
                                 ![t].invoked = Append(@, task.index)]
                  /\ cpu' = IF ctx.apc = "finally" THEN Running(t) ELSE Idle
                  /\ UNCHANGED background_tasks
    /\ UNCHANGED <<triggers, destroy_call, trig_obs>>
    /\ UNCHANGED <<page_url, nav_subs, is_listening, is_navigating, last_url,
                   abort_controller, events_set, nav_listeners, network_tracker,
                   nav_call, ready_call, nav_obs>>
    /\ UNCHANGED <<netVars, trackerVars>>
    /\ UNCHANGED in_flight
    /\ UNCHANGED op_call

(* An await of the running action is over: the action goes on. *)
TaskResume(t, by_signal) ==
    /\ cpu = Idle
    /\ tasks[t].pc = "action"
    /\ LET c == tasks[t].ctx
           ctx == contexts[c]
       IN /\ ctx.apc \in {"busy", "fn", "wait"}
          /\ CanResume(ctx)
          /\ by_signal => /\ ctx.apc = "wait"
                          /\ ctx.action.arg > 0
                          /\ ctx.abort_signal \in events_set
          /\ (~by_signal /\ ctx.apc = "wait") => ctx.remaining = 0
          /\ LET after == ResumeAction(c, ctx, by_signal)
             IN /\ contexts' = [contexts EXCEPT ![c] = after]
                /\ cpu' = IF after.apc = "finally" THEN Running(t) ELSE Idle
    /\ UNCHANGED <<triggers, active_actions, background_tasks, tasks,
                   destroy_call, trig_obs>>
    /\ UNCHANGED <<navVars, netVars, trackerVars>>
    /\ UNCHANGED in_flight
    /\ UNCHANGED op_call

(* cleanup(), lines 203-211, up to its await: a callback that returns a    *)
(* coroutine is awaited, any other has run when it returns.                *)
CleanupSuspends(ctx) == "async" \in Range(ctx.cleanup_callbacks)

CallbacksRunUntilRaise(ctx) ==
    IF "raises" \in Range(ctx.cleanup_callbacks)
    THEN CHOOSE i \in DOMAIN ctx.cleanup_callbacks :
             /\ ctx.cleanup_callbacks[i] = "raises"
             /\ \A j \in 1..(i - 1) : ctx.cleanup_callbacks[j] # "raises"
    ELSE Len(ctx.cleanup_callbacks)

(* cleanup(), lines 205-211: every callback is called inside its own try,  *)
(* an Exception of one is passed over and the loop goes on: the number of  *)
(* callbacks one cleanup() calls.                                          *)
CallbacksRun(ctx) == Len(ctx.cleanup_callbacks)

CaughtIfStopped(outcome) == outcome \in {"none", "completed", "stopped"}

(* Lines 291-296: the except clauses of _run_trigger take                  *)
(* ActionStoppedError and every other Exception; nothing is left to        *)
(* propagate out of _run_trigger.                                          *)
Caught(outcome) == outcome \in {"none", "completed", "stopped", "raised"}

(* Lines 293-300: the action has ended (returned or raised, the exception  *)
(* is logged); finally the cleanup runs and the context leaves the active  *)
(* actions.  The loop of _check_triggers goes on, unless an exception the  *)
(* except clauses did not take ends the task.                              *)
TaskFinally(t) ==
    /\ tasks[t].pc = "action"
    /\ LET c == tasks[t].ctx
           ctx == contexts[c]
       IN \/ /\ cpu = Running(t)
             /\ ctx.apc = "finally"
             /\ CleanupSuspends(ctx)
             /\ contexts' = [contexts EXCEPT
                               ![c].apc = "cleanup",
                               ![c].cleanups = @ + CallbacksRun(ctx)]
             /\ cpu' = Idle
             /\ UNCHANGED <<active_actions, tasks, background_tasks>>
          \/ /\ \/ cpu = Running(t) /\ ctx.apc = "finally" /\ ~CleanupSuspends(ctx)
                \/ cpu = Idle /\ ctx.apc = "cleanup"
             /\ contexts' = [contexts EXCEPT
                               ![c].apc = "ended",
                               ![c].cleanups =
                                   IF ctx.apc = "finally"
                                   THEN @ + CallbacksRun(ctx) ELSE @]
             /\ active_actions' = RemoveFirst(active_actions, c)
             /\ IF Caught(ctx.outcome)
                THEN /\ tasks' = [tasks EXCEPT
                                    ![t].pc = "loop",
                                    ![t].index = NextIndex(tasks[t].index)]
                     /\ cpu' = Running(t)
                     /\ UNCHANGED background_tasks
                ELSE /\ tasks' = [tasks EXCEPT ![t].pc = "crashed"]
                     /\ cpu' = Idle
                     /\ background_tasks' = background_tasks \ {t}
    /\ UNCHANGED <<triggers, destroy_call, trig_obs>>
    /\ UNCHANGED <<navVars, netVars, trackerVars>>
    /\ UNCHANGED in_flight
    /\ UNCHANGED op_call

(***************************************************************************)
(* PageTriggerManager.destroy                                              *)
(***************************************************************************)

(* destroy() is called, for the first time or again after an earlier call *)
(* has returned: the for loop of line 334 starts.                          *)
DestroyCall ==
    /\ cpu = Idle
    /\ destroy_call.pc \in {"none", "done"}
    /\ destroy_call.calls < MaxDestroys
    /\ destroy_call' = [destroy_call EXCEPT
                          !.pc = "loop", !.index = 1,
                          !.active_at_call = Range(active_actions),
                          !.calls = @ + 1]
    /\ cpu' = Destroying
    /\ UNCHANGED <<triggers, active_actions, background_tasks, tasks, contexts,
                   trig_obs>>
    /\ UNCHANGED <<navVars, netVars, trackerVars>>
    /\ UNCHANGED in_flight
    /\ UNCHANGED op_call

(* Lines 334-342: the loop takes the context at its index of the list as   *)
(* it is now, sets its signal and awaits its cleanup; past the end the     *)
(* lists are cleared and the manager unsubscribes.                         *)
DestroyLoop ==
    /\ cpu = Destroying
    /\ destroy_call.pc = "loop"
    /\ IF destroy_call.index > Len(active_actions)
       THEN /\ active_actions' = <<>>
            /\ triggers' = <<>>
            /\ nav_listeners' = [nav_listeners EXCEPT
                                   !.on_url_change = RemoveFirst(@, "ptm")]
            /\ destroy_call' = [destroy_call EXCEPT !.pc = "done"]
            /\ tasks' = [t \in DOMAIN tasks |->
                           IF tasks[t].pc = "done" \/ triggers = <<>> THEN tasks[t]
                           ELSE [tasks[t] EXCEPT !.list_changed = TRUE]]
            /\ cpu' = Idle
            /\ contexts' = [c \in DOMAIN contexts |->
                              [contexts[c] EXCEPT
                                 !.cleared = @ \/ c \in Range(active_actions)]]
            /\ UNCHANGED events_set
       ELSE LET c == active_actions[destroy_call.index]
                ctx == contexts[c]
            IN /\ events_set' = events_set \cup {ctx.abort_signal}
               /\ contexts' = [contexts EXCEPT
                                 ![c].cleanups = @ + CallbacksRun(ctx)]
               /\ IF CleanupSuspends(ctx)
                  THEN /\ destroy_call' = [destroy_call EXCEPT !.pc = "cleanup",
                                                               !.ctx = c]
                       /\ cpu' = Idle
                  ELSE /\ destroy_call' = [destroy_call EXCEPT !.index = @ + 1]
                       /\ cpu' = Destroying
               /\ UNCHANGED <<active_actions, triggers, nav_listeners, tasks>>
    /\ UNCHANGED <<background_tasks, trig_obs>>
    /\ UNCHANGED <<page_url, nav_subs, is_listening, is_navigating, last_url,
                   abort_controller, events_made, network_tracker, nav_call,
                   ready_call, nav_obs>>
    /\ UNCHANGED <<netVars, trackerVars>>
    /\ UNCHANGED in_flight
    /\ UNCHANGED op_call

(* The cleanup destroy() awaits is over: the loop goes on. *)
DestroyResume ==
    /\ cpu = Idle
    /\ destroy_call.pc = "cleanup"
    /\ destroy_call' = [destroy_call EXCEPT !.pc = "loop", !.index = @ + 1]
    /\ cpu' = Destroying
    /\ UNCHANGED <<triggers, active_actions, background_tasks, tasks, contexts,
                   trig_obs>>
    /\ UNCHANGED <<navVars, netVars, trackerVars>>
    /\ UNCHANGED in_flight
    /\ UNCHANGED op_call

(***************************************************************************)
(* The managers of a commander (factory.py): a started tracker, a          *)
(* listening NavigationManager on a playwright page and an initialized     *)
(* PageTriggerManager; the page navigates, user code registers triggers    *)
(* and destroys the manager, the event loop runs the trigger tasks.        *)
(***************************************************************************)
InitTrig ==
    /\ now = 0
    /\ engine = "playwright"
    /\ request_timeout = MaxRequestTimeout
    /\ idle_timeout = 1
    /\ is_tracking = TRUE
    /\ navigation_id = 1
    /\ pending_requests = EmptyMap
    /\ request_start_times = EmptyMap
    /\ request_subs = 1
    /\ wfi = NoWait
    /\ wfi_obs = NoObs
    /\ page_url = UrlBlank
    /\ nav_subs = 1
    /\ is_listening = TRUE
    /\ is_navigating = FALSE
    /\ last_url = UrlBlank
    /\ abort_controller = 1
    /\ events_set = {}
    /\ events_made = 1
    /\ nav_listeners = [NoListeners EXCEPT !.on_url_change = <<"ptm">>]
    /\ network_tracker = TRUE
    /\ nav_call = NoNavigate
    /\ ready_call = NoReady
    /\ nav_obs = [NoNavObs EXCEPT !.generations = {1}]
    /\ TrigAbsent
    /\ in_flight = NoneInFlight
    /\ op_call = NoOp

(* 100 ms pass on the timers of the sleeping ctx.wait calls, between       *)
(* callbacks and unless a wait is due to resume.                           *)
TimePasses ==
    /\ cpu = Idle
    /\ \E c \in DOMAIN contexts : contexts[c].apc = "wait"
    /\ \A c \in DOMAIN contexts : ~WaitDue(contexts[c])
    /\ contexts' = [c \in DOMAIN contexts |->
                      IF contexts[c].apc = "wait"
                      THEN [contexts[c] EXCEPT !.remaining = @ - 1]
                      ELSE contexts[c]]
    /\ UNCHANGED <<triggers, active_actions, background_tasks, tasks,
                   destroy_call, cpu, trig_obs>>
    /\ UNCHANGED <<navVars, netVars, trackerVars>>
    /\ UNCHANGED in_flight
    /\ UNCHANGED op_call

NextTrig ==
    \/ \E config \in TriggerConfigs : PageTrigger(config)
    \/ \E frame \in Frames, url \in PageUrls : FrameNavigated(frame, url)
    \/ \E t \in DOMAIN tasks : TaskStart(t)
    \/ \E t \in DOMAIN tasks : TaskLoop(t)
    \/ \E t \in DOMAIN tasks, by_signal \in BOOLEAN : TaskResume(t, by_signal)
    \/ \E t \in DOMAIN tasks : TaskFinally(t)
    \/ DestroyCall
    \/ DestroyLoop
    \/ DestroyResume
    \/ TimePasses

SpecTrig == InitTrig /\ [][NextTrig]_vars

(***************************************************************************)
(* A commander with one trigger registered, whose owner starts and stops   *)
(* the tracker and the NavigationManager and destroys the trigger manager  *)
(* between the callbacks of the event loop, while the page navigates.      *)
(***************************************************************************)
RegisteredTrigger ==
    CHOOSE config \in TriggerConfigs : config.name = "each"

InitLife ==
    /\ now = 0
    /\ engine = "playwright"
    /\ request_timeout = MaxRequestTimeout
    /\ idle_timeout = 1
    /\ is_tracking = TRUE
    /\ navigation_id = 1
    /\ pending_requests = EmptyMap
    /\ request_start_times = EmptyMap
    /\ request_subs = 1
    /\ wfi = NoWait
    /\ wfi_obs = NoObs
    /\ page_url = UrlBlank
    /\ nav_subs = 1
    /\ is_listening = TRUE
    /\ is_navigating = FALSE
    /\ last_url = UrlBlank
    /\ abort_controller = 1
    /\ events_set = {}
    /\ events_made = 1
    /\ nav_listeners = [NoListeners EXCEPT !.on_url_change = <<"ptm">>]
    /\ network_tracker = TRUE
    /\ nav_call = NoNavigate
    /\ ready_call = NoReady
    /\ nav_obs = [NoNavObs EXCEPT !.generations = {1}]
    /\ triggers = <<RegisteredTrigger>>
    /\ active_actions = <<>>
    /\ background_tasks = {}
    /\ tasks = <<>>
    /\ contexts = <<>>
    /\ destroy_call = NoDestroy
    /\ cpu = Idle
    /\ trig_obs = [NoTrigObs EXCEPT !.registered = 1]
    /\ in_flight = NoneInFlight
    /\ op_call = NoOp

NextLife ==
    \/ cpu = Idle /\ StartTracking
    \/ cpu = Idle /\ StopTracking
    \/ StartListening
    \/ StopListening
    \/ \E frame \in Frames, url \in PageUrls : FrameNavigated(frame, url)
    \/ \E t \in DOMAIN tasks : TaskStart(t)
    \/ \E t \in DOMAIN tasks : TaskLoop(t)
    \/ \E t \in DOMAIN tasks, by_signal \in BOOLEAN : TaskResume(t, by_signal)
    \/ \E t \in DOMAIN tasks : TaskFinally(t)
    \/ DestroyCall
    \/ DestroyLoop
    \/ DestroyResume

SpecLife == InitLife /\ [][NextLife]_vars

(* What destroy() leaves: no trigger, no active action, no subscription. *)
Destroyed ==
    /\ triggers = <<>>
    /\ active_actions = <<>>
    /\ ~PtmSubscribed

(* Everything but the bookkeeping of the destroy() call itself. *)
destroyable == <<now, trackerVars, wfi, wfi_obs, navVars, triggers,
                 active_actions, background_tasks, tasks, contexts, trig_obs,
                 in_flight, op_call>>

\* C14: start_tracking and start_listening called again while already started
\* change nothing (one subscription per page event, the navigation id bumped
\* once, the pending set and the current abort signal kept), and so do
\* stop_tracking and stop_listening called again while stopped and destroy()
\* called again on what an earlier destroy() has left; each first call leaves
\* the state in which the second one is made.
C14_SecondCallChangesNothing ==
    [][/\ StartTracking => is_tracking'
       /\ (is_tracking /\ StartTracking) => UNCHANGED vars
       /\ StopTracking => ~is_tracking'
       /\ (~is_tracking /\ StopTracking) => UNCHANGED vars
       /\ StartListening => is_listening'
       /\ (is_listening /\ StartListening) => UNCHANGED vars
       /\ StopListening => ~is_listening'
       /\ (~is_listening /\ StopListening) => UNCHANGED vars
       /\ (destroy_call.pc = "loop" /\ destroy_call'.pc = "done") => Destroyed'
       /\ (Destroyed /\ destroy_call' # destroy_call) => UNCHANGED destroyable
       /\ request_subs' <= 1
       /\ nav_subs' <= 1]_vars

\* C14 witness: a second destroy() has returned, after a first one that
\* stopped an action, on a tracker and a manager that have been stopped and
\* started again.
C14_Witness ==
    /\ destroy_call.calls = 2
    /\ destroy_call.pc = "done"
    /\ events_set # {}
    /\ is_tracking
    /\ navigation_id = 2
    /\ is_listening
    /\ abort_controller > 1

(***************************************************************************)
(* NavigationManager.navigate, wait_for_page_ready                         *)
(***************************************************************************)

CallOver(call) == call.pc \in {"none", "returned", "raised"}

(* wait_for_page_ready, lines 212-221, up to its await: with a tracker and *)
(* a remaining timeout above 0 it awaits wait_for_network_idle(remaining), *)
(* which sleeps at least once; idle_time is the tracker's idle_timeout.    *)
AwaitsNetworkIdle(timeout) == network_tracker /\ timeout > 0

(* Lines 222-237: what wait_for_page_ready returns, given the tracker's    *)
(* answer (TRUE when the tracker was not asked).                           *)
PageReadyResult(network_idle) == network_idle

(* Lines 161-167 after lines 222-237: on success wait_for_page_ready       *)
(* clears _is_navigating; navigate() does not look at what it returned,    *)
(* clears _is_navigating and returns True.                                 *)
NavigateCompletes(asked, network_idle) ==
    /\ ready_call' = [NoReady EXCEPT
                        !.pc = "returned",
                        !.result = PageReadyResult(network_idle),
                        !.tracker_idle = asked /\ network_idle,
                        !.page_ready_notified = PageReadyResult(network_idle)]
    /\ is_navigating' = FALSE
    /\ nav_call' = [NoNavigate EXCEPT
                       !.pc = "returned", !.result = TRUE,
                       !.complete_notified = TRUE,
                       !.late = now - nav_call.started_at > nav_call.timeout]

(* Lines 158-159: the engine navigation is over, wait_for_page_ready is    *)
(* called with the same timeout.                                           *)
NavigateWaitsForPageReady(timeout) ==
    IF AwaitsNetworkIdle(timeout)
    THEN /\ EnterWait("navigate", timeout, idle_timeout)
         /\ ObserveWait
         /\ ready_call' = [NoReady EXCEPT !.pc = "network_idle",
                                          !.caller = "navigate",
                                          !.timeout = timeout]
         /\ nav_call' = [nav_call EXCEPT !.pc = "page_ready"]
         /\ is_navigating' = TRUE
    ELSE /\ NavigateCompletes(FALSE, TRUE)
         /\ UNCHANGED <<wfi, wfi_obs, pending_requests, request_start_times>>

NavigateRaisesStillNavigating ==
    /\ is_navigating' = is_navigating
    /\ nav_call' = [NoNavigate EXCEPT !.pc = "raised", !.error = "engine"]
    /\ UNCHANGED <<wfi, wfi_obs, pending_requests, request_start_times,
                   ready_call>>

(* Lines 169-172: the engine raised; _is_navigating is cleared and the     *)
(* exception is raised again as it is.                                     *)
NavigateRaises ==
    /\ is_navigating' = FALSE
    /\ nav_call' = [NoNavigate EXCEPT !.pc = "raised", !.error = "engine"]
    /\ UNCHANGED <<wfi, wfi_obs, pending_requests, request_start_times,
                   ready_call>>

(* navigate(url, timeout) on playwright, lines 149-153: up to the await of *)
(* page.goto.                                                              *)
NavigatePlaywright(url, timeout) ==
    /\ cpu = Idle
    /\ engine = "playwright"
    /\ CallOver(nav_call) /\ CallOver(ready_call) /\ ~Sleeping(wfi)
    /\ is_navigating' = TRUE
    /\ nav_call' = [NoNavigate EXCEPT !.pc = "goto", !.url = url,
                                      !.timeout = timeout, !.started_at = now]
    /\ UNCHANGED <<page_url, nav_subs, is_listening, last_url, abort_controller,
                   events_set, events_made, nav_listeners, network_tracker,
                   ready_call, nav_obs>>
    /\ UNCHANGED <<trigVars, netVars, trackerVars>>
    /\ UNCHANGED in_flight
    /\ UNCHANGED op_call

(* page.goto is over: it returns once the page is at the URL (the page's   *)
(* framenavigated event has been delivered by then), or it raises.         *)
GotoReturns(ok) ==
    /\ cpu = Idle
    /\ nav_call.pc = "goto"
    /\ IF ok
       THEN /\ page_url = nav_call.url
            /\ NavigateWaitsForPageReady(nav_call.timeout)
       ELSE NavigateRaises
    /\ UNCHANGED <<page_url, nav_subs, is_listening, last_url, abort_controller,
                   events_set, events_made, nav_listeners, network_tracker,
                   nav_obs>>
    /\ UNCHANGED <<now, trigVars, engine, request_timeout, idle_timeout,
                   is_tracking, navigation_id, request_subs>>
    /\ UNCHANGED in_flight
    /\ UNCHANGED op_call

(* navigate(url, timeout) on selenium, lines 149-159: page.get blocks until *)
(* the page is loaded or raises; no handler is subscribed to the driver.   *)
NavigateSelenium(url, timeout, ok) ==
    /\ cpu = Idle
    /\ engine = "selenium"
    /\ CallOver(nav_call) /\ CallOver(ready_call) /\ ~Sleeping(wfi)
    /\ IF ok
       THEN /\ page_url' = url
            /\ LET call == [NoNavigate EXCEPT !.pc = "get", !.url = url,
                                              !.timeout = timeout,
                                              !.started_at = now]
               IN IF AwaitsNetworkIdle(timeout)
                  THEN /\ EnterWait("navigate", timeout, idle_timeout)
                       /\ ObserveWait
                       /\ ready_call' = [NoReady EXCEPT
                                           !.pc = "network_idle",
                                           !.caller = "navigate",
                                           !.timeout = timeout]
                       /\ nav_call' = [call EXCEPT !.pc = "page_ready"]
                       /\ is_navigating' = TRUE
                  ELSE /\ ready_call' = [NoReady EXCEPT
                                           !.pc = "returned",
                                           !.result = PageReadyResult(TRUE),
                                           !.page_ready_notified =
                                               PageReadyResult(TRUE)]
                       /\ is_navigating' = FALSE
                       /\ nav_call' = [NoNavigate EXCEPT
                                          !.pc = "returned", !.result = TRUE,
                                          !.complete_notified = TRUE]
                       /\ UNCHANGED <<wfi, wfi_obs, pending_requests,
                                      request_start_times>>
       ELSE /\ is_navigating' = FALSE
            /\ nav_call' = [NoNavigate EXCEPT !.pc = "raised",
                                              !.error = "engine"]
            /\ UNCHANGED <<page_url, wfi, wfi_obs, pending_requests,
                           request_start_times, ready_call>>
    /\ UNCHANGED <<nav_subs, is_listening, last_url, abort_controller,
                   events_set, events_made, nav_listeners, network_tracker,
                   nav_obs>>
    /\ UNCHANGED <<now, trigVars, engine, request_timeout, idle_timeout,
                   is_tracking, navigation_id, request_subs>>
    /\ UNCHANGED in_flight
    /\ UNCHANGED op_call

(* The wait_for_network_idle call made for navigate() resumes; when it     *)
(* returns, wait_for_page_ready and navigate() run to their end.           *)
NavigateResume ==
    /\ cpu = Idle
    /\ nav_call.pc = "page_ready"
    /\ wfi.caller = "navigate"
    /\ ResumeWait
    /\ ObserveWait
    /\ IF wfi'.pc = "returned"
       THEN NavigateCompletes(TRUE, wfi'.result)
       ELSE UNCHANGED <<ready_call, is_navigating, nav_call>>
    /\ UNCHANGED <<page_url, nav_subs, is_listening, last_url, abort_controller,
                   events_set, events_made, nav_listeners, network_tracker,
                   nav_obs>>
    /\ UNCHANGED <<now, trigVars, engine, request_timeout, idle_timeout,
                   is_tracking, navigation_id, request_subs>>
    /\ UNCHANGED in_flight
    /\ UNCHANGED op_call

(***************************************************************************)
(* The NetworkTracker and the NavigationManager of a commander on a page   *)
(* of either engine, as factory.py builds them: the tracker is started and *)
(* the manager, which has the tracker, is listening.  The owner stops and  *)
(* restarts the listening and calls navigate(), the page navigates and     *)
(* issues requests.                                                        *)
(***************************************************************************)
NavRequests == {[method |-> "GET", url |-> <<"https:", "/a">>]}

NavTimeouts == {0, MaxTimeout}

InitNav ==
    /\ now = 0
    /\ engine \in Engines
    /\ request_timeout = MaxRequestTimeout
    /\ idle_timeout = 1
    /\ is_tracking = TRUE
    /\ navigation_id = 1
    /\ pending_requests = EmptyMap
    /\ request_start_times = EmptyMap
    /\ request_subs = IF engine = "playwright" THEN 1 ELSE 0
    /\ wfi = NoWait
    /\ wfi_obs = NoObs
    /\ page_url = UrlBlank
    /\ nav_subs = IF engine = "playwright" THEN 1 ELSE 0
    /\ is_listening = TRUE
    /\ is_navigating = FALSE
    /\ last_url = UrlBlank
    /\ abort_controller = 1
    /\ events_set = {}
    /\ events_made = 1
    /\ nav_listeners = NoListeners
    /\ network_tracker = TRUE
    /\ nav_call = NoNavigate
    /\ ready_call = NoReady
    /\ nav_obs = [NoNavObs EXCEPT !.generations = {1}]
    /\ TrigAbsent
    /\ in_flight = NoneInFlight
    /\ op_call = NoOp

(* The clock matters to the manager only while its idle wait is sleeping. *)
NavTimePasses ==
    /\ Sleeping(wfi)
    /\ Tick

NextNav ==
    \/ \E request \in NavRequests : OnRequest(request) /\ UNCHANGED in_flight
    \/ \E request \in NavRequests : OnRequestEnd(request) /\ UNCHANGED in_flight
    \/ StartListening
    \/ StopListening
    \/ \E frame \in Frames, url \in PageUrls : FrameNavigated(frame, url)
    \/ \E url \in PageUrls, timeout \in NavTimeouts : NavigatePlaywright(url, timeout)
    \/ \E ok \in BOOLEAN : GotoReturns(ok)
    \/ \E url \in PageUrls, timeout \in NavTimeouts, ok \in BOOLEAN :
          NavigateSelenium(url, timeout, ok)
    \/ NavigateResume
    \/ NavTimePasses

SpecNav == InitNav /\ [][NextNav]_vars

(***************************************************************************)
(* Properties of the NavigationManager (SpecNav)                           *)
(***************************************************************************)

\* C2: each URL change a listening manager observes fires exactly one abort
\* signal, the one that was current before the change, and installs one new
\* signal that is not fired; a fired signal is never un-fired, and no signal
\* that was current before becomes current again.
C2_OneSignalPerUrlChange ==
    [][/\ events_set \subseteq events_set'
       /\ abort_controller' # abort_controller =>
              abort_controller' \notin (nav_obs.generations \cup events_set')
       /\ nav_obs'.url_changes # nav_obs.url_changes =>
              /\ abort_controller \notin events_set
              /\ events_set' \ events_set = {abort_controller}
              /\ abort_controller' # abort_controller
              /\ abort_controller' \notin events_set']_vars

\* C2 witness: two URL changes have been observed, each fired the signal that
\* was current, and the current signal is a third one that is not fired.
C2_Witness ==
    /\ is_listening
    /\ nav_obs.url_changes >= 2
    /\ Cardinality(events_set) >= 2
    /\ events_set \subseteq nav_obs.generations
    /\ abort_controller \in nav_obs.generations \ events_set

\* C10: when a navigation starts on a manager that has a tracker (a detected
\* URL change, or a navigate() call), the tracker is reset: its navigation id
\* is bumped and the requests pending before are removed.
C10_NavigationResetsTracker ==
    [][(\/ nav_obs'.url_changes # nav_obs.url_changes
        \/ CallOver(nav_call) /\ ~CallOver(nav_call'))
          => /\ navigation_id' = navigation_id + 1
             /\ pending_requests' = EmptyMap]_vars

(***************************************************************************)
(* Properties of the PageTriggerManager and ActionContext (SpecTrig)       *)
(***************************************************************************)

MatchingIndices(list, url) ==
    SelectSeq([j \in 1..Len(list) |-> j],
              LAMBDA j : Matches(list[j].condition, url))

(* The contexts made for a _check_triggers task, in the order made. *)
TaskContexts(t) ==
    SelectSeq([c \in 1..Len(contexts) |-> c], LAMBDA c : contexts[c].task = t)

\* C4 as stated: for the triggers registered when a URL changes to a URL that
\* k of them match, exactly those k actions are invoked for the URL change,
\* in registration order.
C4_ExactlyMatchingInvoked ==
    \A t \in DOMAIN tasks :
        tasks[t].pc = "done" =>
            tasks[t].invoked = MatchingIndices(tasks[t].snapshot, tasks[t].url)

\* C4 amended: if the trigger list is not changed (by page_trigger or
\* destroy) between the URL change and the end of its evaluation task, then
\* exactly the matching triggers' actions have been invoked, in registration
\* order, each with a context of its own whose abort signal no other context
\* has.
C4_MatchingInvokedIfListKept ==
    /\ \A t \in DOMAIN tasks :
           (tasks[t].pc = "done" /\ ~tasks[t].list_changed) =>
               /\ tasks[t].invoked =
                      MatchingIndices(tasks[t].snapshot, tasks[t].url)
               /\ Len(TaskContexts(t)) = Len(tasks[t].invoked)
               /\ \A i \in DOMAIN tasks[t].invoked :
                      /\ contexts[TaskContexts(t)[i]].trigger_name =
                             tasks[t].snapshot[tasks[t].invoked[i]].name
                      /\ contexts[TaskContexts(t)[i]].url = tasks[t].url
    /\ \A c1, c2 \in DOMAIN contexts :
           c1 # c2 => contexts[c1].abort_signal # contexts[c2].abort_signal

\* C4 witness: an evaluation has ended, with the list unchanged, after it
\* invoked the actions of two matching triggers.
C4_Witness ==
    \E t \in DOMAIN tasks :
        /\ tasks[t].pc = "done"
        /\ ~tasks[t].list_changed
        /\ Len(tasks[t].invoked) >= 2
        /\ Len(TaskContexts(t)) >= 2

\* C5: the actions of the triggers that match one URL change run
\* concurrently: a later matching trigger's action starts without waiting for
\* an earlier one to finish, so by the time 100 ms have passed in a ctx.wait
\* of one of them, every matching trigger's action has been started.
C5_LaterActionStartsWithoutWaiting ==
    \A c \in DOMAIN contexts :
        LET ctx == contexts[c]
            task == tasks[ctx.task]
        IN (/\ ctx.apc = "wait"
            /\ ctx.remaining < ctx.action.arg
            /\ ~task.list_changed)
               => \A j \in DOMAIN triggers :
                      Matches(triggers[j].condition, task.url)
                          => j \in Range(task.invoked)

\* C6: once the abort signal of a context has fired, a wait or for_each call
\* on it raises ActionStoppedError: no such call completes normally with the
\* signal set.
C6_StoppedCallsRaise ==
    \A c \in DOMAIN contexts :
        contexts[c].outcome = "completed" => ~contexts[c].set_at_end

\* C7: after destroy() has completed, every context that was active when it
\* was called has had its abort signal set; at the least every one of them
\* whose action has not ended by itself in the meantime.
C7_DestroyStopsAllActive ==
    destroy_call.pc = "done" =>
        \A c \in destroy_call.active_at_call :
            IsStopped(contexts[c]) \/ contexts[c].apc = "ended"

(* A _check_triggers task is over when its coroutine has returned. *)
TaskOver(task) == task.pc \in {"done", "crashed"}

\* C15: the URL-change callback of the PageTriggerManager returns without
\* evaluating a condition or running an action: it only schedules the
\* evaluation as a background task.  That task is in the registry of
\* background tasks until it is over, and it starts only when the callback
\* has returned control to the event loop.
C15_EvaluationIsScheduled ==
    [][/\ (trig_obs'.handled # trig_obs.handled) =>
             /\ Len(tasks') = Len(tasks) + 1
             /\ tasks'[Len(tasks')].pc = "created"
             /\ tasks'[Len(tasks')].invoked = <<>>
             /\ Len(contexts') = Len(contexts)
             /\ \A c \in DOMAIN contexts : contexts'[c].apc = contexts[c].apc
             /\ active_actions' = active_actions
             /\ cpu' = Idle
       /\ \A t \in DOMAIN tasks' :
             (t \in background_tasks') <=> ~TaskOver(tasks'[t])
       /\ \A t \in DOMAIN tasks :
             (tasks[t].pc = "created" /\ tasks'[t].pc # "created") => cpu = Idle]_vars

\* C15 witness: a URL change was handled while a trigger matching the new URL
\* is registered and its task has not started: no action has been invoked.
C15_Witness ==
    /\ trig_obs.handled = 1
    /\ Len(tasks) = 1
    /\ tasks[1].pc = "created"
    /\ 1 \in background_tasks
    /\ \E i \in DOMAIN triggers : Matches(triggers[i].condition, tasks[1].url)
    /\ contexts = <<>>

(* The action of a context is running: it is in one of its awaits. *)
ActionRunning(ctx) == ctx.apc \in {"busy", "fn", "wait"}

(* _run_trigger is over: the action has ended and the finally clause too. *)
ActionOver(c) ==
    /\ contexts[c].apc = "ended"
    /\ c \notin Range(active_actions)
    /\ contexts[c].cleanups >= Len(contexts[c].cleanup_callbacks)

\* C16 as stated: whenever a trigger action has ended (by return, by
\* ActionStoppedError or by another exception) its context is not in the
\* active set and its cleanup callbacks have been called; between the start
\* and the end of the action the context is in the active set.
C16_ActiveExactlyWhileRunning ==
    \A c \in DOMAIN contexts :
        /\ contexts[c].apc = "ended" => ActionOver(c)
        /\ ActionRunning(contexts[c]) => c \in Range(active_actions)

\* C16 amended: whenever a trigger action has ended its context is not in
\* the active set and its cleanup callbacks have been called; between the
\* start and the end of the action the context is in the active set unless
\* destroy() has cleared the set since the action started.
C16_ActiveWhileRunningUnlessDestroyed ==
    \A c \in DOMAIN contexts :
        /\ contexts[c].apc = "ended" => ActionOver(c)
        /\ (ActionRunning(contexts[c]) /\ ~contexts[c].cleared)
              => c \in Range(active_actions)

\* C16 witness: an action has ended by an exception of its own, its two
\* cleanup callbacks have been called and its context has left the active
\* set, while the action of another context is running.
C16_Witness ==
    \E c, d \in DOMAIN contexts :
        /\ contexts[c].outcome = "raised"
        /\ ActionOver(c)
        /\ contexts[c].cleanups = 2
        /\ ActionRunning(contexts[d])
        /\ d \in Range(active_actions)

(* The context destroy() is about to stop has a cleanup callback that      *)
(* raises.                                                                 *)
DestroyMeetsFailingCleanup ==
    /\ destroy_call.pc = "loop"
    /\ destroy_call.index <= Len(active_actions)
    /\ "raises" \in
          Range(contexts[active_actions[destroy_call.index]].cleanup_callbacks)

\* C17: an exception raised by an action does not propagate out of the
\* evaluation of the triggers and does not keep the later matching triggers
\* from running; an exception raised by a cleanup callback does not keep the
\* remaining callbacks from being called, the context from leaving the
\* active set, or destroy() from going on to its end.
C17_FailuresDoNotEscape ==
    [][/\ \A t \in DOMAIN tasks' : tasks'[t].pc # "crashed"
       /\ \A t \in DOMAIN tasks :
             (/\ tasks[t].pc = "action"
              /\ tasks'[t].pc # "action"
              /\ contexts[tasks[t].ctx].outcome = "raised")
                => /\ tasks'[t].pc = "loop"
                   /\ tasks'[t].index = tasks[t].index + 1
       /\ \A t \in DOMAIN tasks' :
             (/\ tasks'[t].pc = "done"
              /\ ~tasks'[t].list_changed
              /\ \E c \in DOMAIN contexts' :
                    contexts'[c].task = t /\ contexts'[c].outcome = "raised")
                => tasks'[t].invoked =
                       MatchingIndices(tasks'[t].snapshot, tasks'[t].url)
       /\ \A c \in DOMAIN contexts' :
             (/\ contexts'[c].apc = "ended"
              /\ "raises" \in Range(contexts'[c].cleanup_callbacks))
                => /\ c \notin Range(active_actions')
                   /\ contexts'[c].cleanups >= Len(contexts'[c].cleanup_callbacks)
       /\ DestroyMeetsFailingCleanup
             => LET c == active_actions[destroy_call.index]
                IN /\ destroy_call'.pc = "loop"
                   /\ destroy_call'.index = destroy_call.index + 1
                   /\ contexts'[c].cleanups =
                          contexts[c].cleanups + Len(contexts[c].cleanup_callbacks)
      ]_vars

\* C17 witness: an evaluation has ended in which the action of one matching
\* trigger raised, both cleanup callbacks of its context were called although
\* the first of them raised, and the action of a later matching trigger was
\* invoked after it.
C17_Witness ==
    \E t \in DOMAIN tasks, c, d \in DOMAIN contexts :
        /\ tasks[t].pc = "done"
        /\ contexts[c].task = t
        /\ contexts[d].task = t
        /\ c < d
        /\ contexts[c].outcome = "raised"
        /\ contexts[c].apc = "ended"
        /\ contexts[c].cleanup_callbacks = <<"raises", "sync">>
        /\ contexts[c].cleanups = 2
        /\ c \notin Range(active_actions)

\* C17 witness of destroy(): a destroy() call has returned after it ran the
\* cleanup of a context whose first cleanup callback raises.
C17_DestroyWitness ==
    /\ destroy_call.pc = "done"
    /\ \E c \in destroy_call.active_at_call :
          /\ "raises" \in Range(contexts[c].cleanup_callbacks)
          /\ contexts[c].cleanups >= 2

(***************************************************************************)
(* Properties of navigate() (SpecNav)                                      *)
(***************************************************************************)

\* C18: is_navigating becomes true on every detected URL change and on every
\* navigate() call, and whenever it changes from true to false a
\* wait_for_page_ready call on the manager has just succeeded (the change
\* made by a navigate() that raises is left aside here).
C18_LeavesNavigatingOnlyWhenReady ==
    [][/\ (nav_obs'.url_changes # nav_obs.url_changes) => is_navigating'
       /\ (nav_call'.pc \in {"goto", "page_ready"}) => is_navigating'
       /\ (is_navigating /\ ~is_navigating' /\ nav_call'.pc # "raised")
             => /\ ready_call'.pc = "returned"
                /\ ready_call'.result = TRUE]_vars

\* C19: navigate(url) returns true and notifies the on_navigation_complete
\* listeners only when its wait_for_page_ready succeeded; when the page-ready
\* wait fails no on_navigation_complete listener is notified.
C19_CompleteOnlyWhenPageReady ==
    (nav_call.pc = "returned" /\ (nav_call.result \/ nav_call.complete_notified))
        => (ready_call.pc = "returned" /\ ready_call.result = TRUE)

\* C20: when the engine's navigation primitive raises during navigate(), the
\* exception reaches the caller as it is, no on_navigation_complete listener
\* is notified and the call does not leave the manager navigating.
C20_EngineErrorReachesCaller ==
    [][(\/ GotoReturns(FALSE)
        \/ \E url \in PageUrls, timeout \in NavTimeouts :
              NavigateSelenium(url, timeout, FALSE))
          => /\ nav_call'.pc = "raised"
             /\ nav_call'.error = "engine"
             /\ ~nav_call'.result
             /\ ~nav_call'.complete_notified
             /\ ~is_navigating']_vars

\* C20 witness: page.goto has raised after a URL change was detected during
\* the call; navigate() has raised and the manager is not navigating.
C20_Witness ==
    /\ engine = "playwright"
    /\ nav_call.pc = "raised"
    /\ nav_call.error = "engine"
    /\ ~nav_call.complete_notified
    /\ ~is_navigating
    /\ nav_obs.url_changes > 0

\* C21: with a NetworkTracker present, wait_for_page_ready(timeout) returns
\* true and notifies the on_page_ready listeners only if the tracker reported
\* network idle to that call, for every timeout value.
C21_ReadyOnlyIfTrackerIdle ==
    (/\ network_tracker
     /\ ready_call.pc = "returned"
     /\ (ready_call.result \/ ready_call.page_ready_notified))
        => ready_call.tracker_idle

(***************************************************************************)
(* NavigationManager.wait_for_navigation, called through the commander     *)
(***************************************************************************)

(* The timeout argument: None (the default of the commander's method and   *)
(* of browser.navigation.wait_for_navigation, handed on as it is) or a     *)
(* number of 100 ms units.                                                 *)
NoTimeout == <<>>

WfnTimeouts == {NoTimeout} \cup {<<ms>> : ms \in 0..MaxTimeout}

NoWfn == [kind |-> "wait_for_navigation", pc |-> "none", timeout |-> NoTimeout,
          start_time |-> 0, wake |-> 0, result |-> FALSE, error |-> "none"]

(* Lines 191-196: the while loop from its test to its await.  The          *)
(* comparison of line 192 raises TypeError when timeout is None.           *)
WfnIteration(w) ==
    IF ~is_navigating
    THEN [w EXCEPT !.pc = "returned", !.result = TRUE]
    ELSE IF w.timeout = NoTimeout
         THEN [w EXCEPT !.pc = "raised", !.error = "TypeError"]
         ELSE IF now - w.start_time > w.timeout[1]
              THEN [w EXCEPT !.pc = "returned", !.result = FALSE]
              ELSE [w EXCEPT !.pc = "sleep", !.wake = now + PollInterval]

(* commander.wait_for_navigation(timeout): factory.py 277-292 and          *)
(* navigation.py 499-500 hand the timeout to the manager; lines 186-194.   *)
WaitForNavigation(timeout) ==
    /\ cpu = Idle
    /\ op_call = NoOp
    /\ op_call' = IF ~is_navigating
                  THEN [NoWfn EXCEPT !.pc = "returned", !.timeout = timeout,
                                     !.start_time = now, !.result = TRUE]
                  ELSE WfnIteration([NoWfn EXCEPT !.timeout = timeout,
                                                  !.start_time = now])
    /\ UNCHANGED <<now, trackerVars, wfi, wfi_obs, navVars, trigVars, in_flight>>

(* asyncio.sleep(0.1) of line 194 is over: the loop tests again. *)
WaitForNavigationResume ==
    /\ cpu = Idle
    /\ op_call.kind = "wait_for_navigation"
    /\ op_call.pc = "sleep"
    /\ now >= op_call.wake
    /\ op_call' = WfnIteration(op_call)
    /\ UNCHANGED <<now, trackerVars, wfi, wfi_obs, navVars, trigVars, in_flight>>

(* Time passes while the call sleeps, up to the moment it is due. *)
WfnTimePasses ==
    /\ op_call.kind = "wait_for_navigation"
    /\ op_call.pc = "sleep"
    /\ now < op_call.wake
    /\ Tick

(* A listening manager on a playwright page: the page navigates, the owner *)
(* calls navigate() with a timeout of 0 and wait_for_navigation.           *)
InitWfn ==
    /\ InitNav
    /\ engine = "playwright"

NextWfn ==
    \/ \E frame \in Frames, url \in PageUrls : FrameNavigated(frame, url)
    \/ \E url \in PageUrls : NavigatePlaywright(url, 0)
    \/ \E ok \in BOOLEAN : GotoReturns(ok)
    \/ \E timeout \in WfnTimeouts : WaitForNavigation(timeout)
    \/ WaitForNavigationResume
    \/ WfnTimePasses

SpecWfn == InitWfn /\ [][NextWfn]_vars

\* C22: wait_for_navigation ends with a boolean for every timeout the
\* commander can pass, its default of no timeout included: it never ends by
\* raising.
C22_AlwaysBoolean ==
    op_call.kind = "wait_for_navigation" => op_call.pc # "raised"

(***************************************************************************)
(* The time a navigate() call takes: page.goto takes time, up to its       *)
(* timeout, and the page-ready wait that follows takes time of its own.    *)
(***************************************************************************)

(* Time passes while page.goto is awaited; the engine raises its timeout   *)
(* error when the navigation has taken the timeout.                        *)
GotoTimePasses ==
    /\ nav_call.pc = "goto"
    /\ now - nav_call.started_at < nav_call.timeout
    /\ Tick

InitNavTime ==
    /\ InitNav
    /\ engine = "playwright"

NextNavTime ==
    \/ \E request \in NavRequests : OnRequest(request) /\ UNCHANGED in_flight
    \/ \E request \in NavRequests : OnRequestEnd(request) /\ UNCHANGED in_flight
    \/ \E timeout \in NavTimeouts : NavigatePlaywright(UrlBlank, timeout)
    \/ \E ok \in BOOLEAN : GotoReturns(ok)
    \/ NavigateResume
    \/ NavTimePasses
    \/ GotoTimePasses

SpecNavTime == InitNavTime /\ [][NextNavTime]_vars

\* C23: a navigate(url, timeout=T) call, its engine navigation and its
\* page-ready wait taken together, returns within T of being made.
C23_NavigateWithinTimeout ==
    nav_call.pc = "returned" => ~nav_call.late

(***************************************************************************)
(* Verification with retry: verify_fill (interactions/fill.py),            *)
(* verify_scroll (interactions/scroll.py), verify_navigation               *)
(* (browser/navigation.py) and verify_click (interactions/click.py).       *)
(* The verification predicate verify_fn is the caller's: each invocation   *)
(* returns any result, and takes no time.                                  *)
(***************************************************************************)
MaxRetryInterval == 2

MaxObserved == 1

VerificationTimeout == 3

RetryingVerifiers == {"verify_fill", "verify_scroll", "verify_navigation"}

(* What a predicate can return: verified, navigation_error and the value   *)
(* it observed (actual_value, in_viewport, actual_url); 0 is the value of  *)
(* the initial last_result ("" or False).                                  *)
PredicateResults ==
    [verified : BOOLEAN, navigation_error : BOOLEAN, observed : 0..MaxObserved]

InitialLastResult == [verified |-> FALSE, navigation_error |-> FALSE, observed |-> 0]

NoVerify == [kind |-> "verify", fn |-> "verify_fill", pc |-> "none",
             timeout |-> 0, retry_interval |-> 1, start_time |-> 0,
             wake |-> 0, attempts |-> 0, last_result |-> InitialLastResult,
             seen |-> <<>>, result |-> InitialLastResult,
             reports_attempts |-> FALSE, reported |-> 0, ended_at |-> 0]

(* The loop test of fill.py 119, scroll.py 148, navigation.py 179.         *)
LoopForever(v) == TRUE

LoopTest(v) == now - v.start_time < v.timeout

(* The second exit of the loop body: fill.py 139, scroll.py 163,           *)
(* navigation.py 197.                                                      *)
NeverStops(last_result) == FALSE

StopsOnNavigationError(last_result) == last_result.navigation_error

(* The value a result built on a navigation error carries: "" in fill.py   *)
(* 144, False in scroll.py 168, last_result.actual_url in navigation.py    *)
(* 202.                                                                    *)
ObservedOnNavigationError(v) ==
    IF v.fn = "verify_navigation" THEN v.last_result.observed ELSE 0

VerifyReturn(v, verified, navigation_error, observed) ==
    [v EXCEPT !.pc = "returned",
              !.result = [verified |-> verified,
                          navigation_error |-> navigation_error,
                          observed |-> observed],
              !.reports_attempts = TRUE,
              !.reported = v.attempts,
              !.ended_at = now]

(* One turn of the while loop, from its test to its return or its sleep:   *)
(* fill.py 119-149, scroll.py 148-173, navigation.py 179-209; the return   *)
(* after the loop is fill.py 157-161, scroll.py 181-185, navigation.py     *)
(* 216-222.  predicate is what verify_fn returns if it is invoked.         *)
VerifyIteration(v, predicate) ==
    IF ~LoopTest(v)
    THEN VerifyReturn(v, FALSE, FALSE, v.last_result.observed)
    ELSE LET w == [v EXCEPT !.attempts = v.attempts + 1,
                            !.last_result = predicate,
                            !.seen = Append(v.seen, [at |-> now, got |-> predicate])]
         IN  IF predicate.verified
             THEN VerifyReturn(w, TRUE, FALSE, predicate.observed)
             ELSE IF StopsOnNavigationError(predicate)
                  THEN VerifyReturn(w, FALSE, TRUE, ObservedOnNavigationError(w))
                  ELSE [w EXCEPT !.pc = "sleep", !.wake = now + v.retry_interval]

(* verify_fill / verify_scroll / verify_navigation is called: the          *)
(* initialisation of fill.py 114-117 and the first turn of the loop.  The  *)
(* call is made while the clock leaves room for it to end.                 *)
VerifyCall(fn, timeout, retry_interval, predicate) ==
    /\ cpu = Idle
    /\ op_call = NoOp
    /\ now + timeout + retry_interval <= MaxTime
    /\ op_call' = VerifyIteration([NoVerify EXCEPT !.fn = fn,
                                                   !.timeout = timeout,
                                                   !.retry_interval = retry_interval,
                                                   !.start_time = now],
                                  predicate)
    /\ UNCHANGED <<now, trackerVars, wfi, wfi_obs, navVars, trigVars, in_flight>>

(* asyncio.sleep(retry_interval / 1000) is over: the loop tests again. *)
VerifyResume(predicate) ==
    /\ cpu = Idle
    /\ op_call.kind = "verify"
    /\ op_call.pc = "sleep"
    /\ now >= op_call.wake
    /\ op_call' = VerifyIteration(op_call, predicate)
    /\ UNCHANGED <<now, trackerVars, wfi, wfi_obs, navVars, trigVars, in_flight>>

(* verify_click, click.py 178-219: the predicate is awaited once and its   *)
(* result is returned as it is; ClickVerificationResult (click.py 22-28)   *)
(* has no attempts field.  The call has no timeout and no retry_interval   *)
(* parameter: the record keeps the defaults of the other verifiers.        *)
VerifyClick(predicate) ==
    /\ cpu = Idle
    /\ op_call = NoOp
    /\ op_call' = [NoVerify EXCEPT !.fn = "verify_click",
                                   !.pc = "returned",
                                   !.timeout = VerificationTimeout,
                                   !.start_time = now,
                                   !.last_result = predicate,
                                   !.seen = <<[at |-> now, got |-> predicate]>>,
                                   !.result = predicate,
                                   !.ended_at = now]
    /\ UNCHANGED <<now, trackerVars, wfi, wfi_obs, navVars, trigVars, in_flight>>

(* Time passes before the call and while it sleeps, up to its wake time. *)
VerifyTimePasses ==
    /\ \/ op_call = NoOp
       \/ /\ op_call.kind = "verify"
          /\ op_call.pc = "sleep"
          /\ now < op_call.wake
    /\ Tick

InitVerify ==
    /\ InitNav
    /\ engine = "playwright"

NextVerify ==
    \/ \E fn \in RetryingVerifiers, timeout \in 0..MaxTimeout,
          retry_interval \in 1..MaxRetryInterval, predicate \in PredicateResults :
          VerifyCall(fn, timeout, retry_interval, predicate)
    \/ \E predicate \in PredicateResults : VerifyResume(predicate)
    \/ \E predicate \in PredicateResults : VerifyClick(predicate)
    \/ VerifyTimePasses

SpecVerify == InitVerify /\ [][NextVerify]_vars

Verifying == op_call.kind = "verify" /\ op_call.fn \in RetryingVerifiers

Unverified(got) == ~got.verified /\ ~got.navigation_error

LastSeen == op_call.seen[Len(op_call.seen)].got

\* C24: verify_fill, verify_scroll and verify_navigation invoke the predicate
\* only while the elapsed time is below the timeout; every result before the
\* last one was unverified without navigation error; a call that sleeps has
\* just seen such a result; a call that returned after a verified result
\* returns verified = true, after an unverified result flagged
\* navigation_error returns verified = false and navigation_error = true,
\* and otherwise returns, once the timeout has elapsed, the last observed
\* unverified result (the initial one when nothing was observed).
C24_VerifyWithRetry ==
    Verifying =>
        /\ \A i \in 1..Len(op_call.seen) :
              /\ op_call.seen[i].at - op_call.start_time < op_call.timeout
              /\ i < Len(op_call.seen) => Unverified(op_call.seen[i].got)
        /\ op_call.pc = "sleep" => (op_call.seen # <<>> /\ Unverified(LastSeen))
        /\ op_call.pc = "returned" =>
              IF op_call.seen # <<>> /\ LastSeen.verified
              THEN op_call.result.verified
              ELSE IF op_call.seen # <<>> /\ LastSeen.navigation_error
                   THEN ~op_call.result.verified /\ op_call.result.navigation_error
                   ELSE /\ ~op_call.result.verified
                        /\ ~op_call.result.navigation_error
                        /\ op_call.result.observed = op_call.last_result.observed
                        /\ op_call.ended_at - op_call.start_time >= op_call.timeout

C24_Witness ==
    /\ Verifying
    /\ op_call.pc = "returned"
    /\ Len(op_call.seen) >= 2
    /\ ~LastSeen.verified
    /\ LastSeen.navigation_error
    /\ op_call.result.navigation_error

\* C25: a call of verify_fill, verify_scroll or verify_navigation ends
\* within timeout + retry_interval of its start (no sleep of the call ends
\* later than that), and on every exit the attempts it reports is the
\* number of times the predicate was invoked.
C25_EndsInTimeAndCountsAttempts ==
    Verifying =>
        /\ op_call.attempts = Len(op_call.seen)
        /\ op_call.pc = "sleep" =>
              op_call.wake - op_call.start_time <= op_call.timeout + op_call.retry_interval
        /\ op_call.pc = "returned" =>
              /\ op_call.ended_at - op_call.start_time
                    <= op_call.timeout + op_call.retry_interval
              /\ op_call.reports_attempts
              /\ op_call.reported = Len(op_call.seen)

C25_Witness ==
    /\ Verifying
    /\ op_call.pc = "returned"
    /\ op_call.timeout > 0
    /\ op_call.reported >= 2
    /\ Unverified(LastSeen)
    /\ op_call.ended_at - op_call.start_time >= op_call.timeout

\* C26: verify_click follows the protocol of verify_fill: a call that has
\* returned reports its attempts, and has returned a verified result, a
\* result flagged navigation_error, or after its timeout has elapsed.
C26_ClickFollowsRetryProtocol ==
    (op_call.kind = "verify" /\ op_call.fn = "verify_click" /\ op_call.pc = "returned") =>
        /\ op_call.reports_attempts
        /\ \/ op_call.result.verified
           \/ op_call.result.navigation_error
           \/ op_call.ended_at - op_call.start_time >= op_call.timeout

(***************************************************************************)
(* The navigation-safe operations goto (browser/navigation.py),            *)
(* click_button (interactions/click.py) and fill_text_area                 *)
(* (interactions/fill.py).  A call goes through its lower-layer calls one  *)
(* by one; each of them returns one of its outcomes or raises.             *)
(***************************************************************************)
ErrorClasses == {"NavigationError", "ActionStoppedError", "Exception"}

(* An exception: its class and whether its message holds one of the        *)
(* patterns of navigation_safety.py 26-48.                                 *)
ActionErrors == [cls : ErrorClasses, navigation_pattern : BOOLEAN]

NoError == [cls |-> "none", navigation_pattern |-> FALSE]

(* navigation_safety.py 13-49 *)
is_navigation_error(error) ==
    error.cls = "NavigationError" \/ error.navigation_pattern

(* page_trigger_manager.py 23-32 *)
is_action_stopped_error(error) == error.cls = "ActionStoppedError"

SafeOperations == {"goto", "click_button", "fill_text_area"}

NoResult == [completed |-> FALSE, navigated |-> FALSE, verified |-> FALSE]

NoOperation == [kind |-> "action", fn |-> "goto", pc |-> "none", verify |-> TRUE,
             trace |-> <<>>, click_verified |-> TRUE, detected |-> "none",
             below |-> NoError, caught |-> "none",
             error |-> NoError, result |-> NoResult]

FirstStep(fn) == IF fn = "fill_text_area" THEN "locate" ELSE "start_url"

(* Who is called at a step: the engine, the caller's wait function or the  *)
(* caller's verification predicate.                                        *)
StepSource(step) ==
    IF step \in {"scroll_wait", "navigation_delay", "wait_after_click"}
    THEN "wait_fn"
    ELSE IF step \in {"verify_navigation", "verify_click", "verify_fill"}
         THEN "predicate"
         ELSE "engine"

(* What a step can raise.  Reading the URL is a remote call under selenium *)
(* (driver.current_url) and a plain attribute under playwright; the engine *)
(* raises its own exceptions, never ActionStoppedError.                    *)
Raisable(step) ==
    IF step \in {"start_url", "detect_navigation"} /\ engine = "playwright"
    THEN {}
    ELSE IF StepSource(step) = "engine"
         THEN {error \in ActionErrors : error.cls # "ActionStoppedError"}
         ELSE ActionErrors

(* The outcomes of a step that returns. *)
Outcomes(step) ==
    CASE step = "needs_scrolling" -> {"needed", "skipped"}
      [] step = "check_empty" -> {"empty", "occupied"}
      [] step = "detect_navigation" -> {"navigated", "stayed"}
      [] step \in {"verify_navigation", "verify_click", "verify_fill"} ->
            {"verified", "unverified"}
      [] OTHER -> {"ok"}

ActionReturn(a, completed, navigated, verified) ==
    [a EXCEPT !.pc = "returned",
              !.result = [completed |-> completed, navigated |-> navigated,
                          verified |-> verified]]

ActionGoesTo(a, step) == [a EXCEPT !.pc = step]

(* goto with a NavigationManager, navigation.py 355-407. *)
GotoAfter(a, outcome) ==
    CASE a.pc = "start_url" -> ActionGoesTo(a, "navigate")
      [] a.pc = "navigate" ->
            IF a.verify THEN ActionGoesTo(a, "verify_navigation")
                        ELSE ActionReturn(a, TRUE, TRUE, TRUE)
      [] a.pc = "verify_navigation" ->
            ActionReturn(a, TRUE, TRUE, outcome = "verified")

(* click_button, click.py 436-517, with click_element (click.py 250-289)   *)
(* and scroll_into_view_if_needed (scroll.py 344-392) unfolded.            *)
ClickButtonAfter(a, outcome) ==
    CASE a.pc = "start_url" -> ActionGoesTo(a, "locate")
      [] a.pc = "locate" -> ActionGoesTo(a, "needs_scrolling")
      [] a.pc = "needs_scrolling" ->
            ActionGoesTo(a, IF outcome = "needed" THEN "scroll_into_view" ELSE "click")
      [] a.pc = "scroll_into_view" ->
            IF outcome = "aborted" THEN ActionReturn(a, FALSE, TRUE, TRUE)
                                   ELSE ActionGoesTo(a, "scroll_wait")
      [] a.pc = "scroll_wait" -> ActionGoesTo(a, "click")
      [] a.pc = "click" ->
            IF outcome = "not_clicked" THEN ActionReturn(a, FALSE, TRUE, TRUE)
            ELSE IF a.verify THEN ActionGoesTo(a, "verify_click")
                             ELSE ActionGoesTo(a, "navigation_delay")
      [] a.pc = "verify_click" ->
            IF outcome = "not_clicked" THEN ActionReturn(a, FALSE, TRUE, TRUE)
            ELSE ActionGoesTo([a EXCEPT !.click_verified = (outcome = "verified")],
                              "navigation_delay")
      [] a.pc = "navigation_delay" -> ActionGoesTo(a, "detect_navigation")
      [] a.pc = "detect_navigation" ->
            ActionGoesTo([a EXCEPT !.detected = outcome],
                         IF outcome = "navigated" THEN "page_ready"
                                                  ELSE "wait_after_click")
      [] a.pc = "page_ready" -> ActionReturn(a, TRUE, TRUE, TRUE)
      [] a.pc = "wait_after_click" -> ActionReturn(a, TRUE, FALSE, a.click_verified)

(* fill_text_area, fill.py 319-405, with click_element (verify left at its *)
(* default) and perform_fill (fill.py 233-267) unfolded.                   *)
FillTextAreaAfter(a, outcome) ==
    CASE a.pc = "locate" -> ActionGoesTo(a, "check_empty")
      [] a.pc = "check_empty" ->
            ActionGoesTo(a, IF outcome = "occupied" THEN "get_input_value"
                                                    ELSE "needs_scrolling")
      [] a.pc = "get_input_value" -> ActionReturn(a, FALSE, FALSE, FALSE)
      [] a.pc = "needs_scrolling" ->
            ActionGoesTo(a, IF outcome = "needed" THEN "scroll_into_view" ELSE "click")
      [] a.pc = "scroll_into_view" ->
            ActionGoesTo(a, IF outcome = "aborted" THEN "click" ELSE "scroll_wait")
      [] a.pc = "scroll_wait" -> ActionGoesTo(a, "click")
      [] a.pc = "click" ->
            IF outcome = "not_clicked" THEN ActionReturn(a, FALSE, FALSE, FALSE)
                                       ELSE ActionGoesTo(a, "verify_click")
      [] a.pc = "verify_click" ->
            IF outcome = "not_clicked" THEN ActionReturn(a, FALSE, FALSE, FALSE)
                                       ELSE ActionGoesTo(a, "fill")
      [] a.pc = "fill" ->
            IF outcome = "not_filled" THEN ActionReturn(a, FALSE, FALSE, FALSE)
            ELSE IF a.verify THEN ActionGoesTo(a, "verify_fill")
                             ELSE ActionReturn(a, TRUE, FALSE, TRUE)
      [] a.pc = "verify_fill" ->
            IF outcome = "not_filled" THEN ActionReturn(a, FALSE, FALSE, FALSE)
                                      ELSE ActionReturn(a, TRUE, FALSE, outcome = "verified")

ActionAfter(a, outcome) ==
    CASE a.fn = "goto" -> GotoAfter(a, outcome)
      [] a.fn = "click_button" -> ClickButtonAfter(a, outcome)
      [] a.fn = "fill_text_area" -> FillTextAreaAfter(a, outcome)

(* The function a step runs in catches the error itself and returns a     *)
(* value: needs_scrolling (scroll.py 295-299) returns False,               *)
(* scroll_into_view (scroll.py 258-262) a result that is not scrolled,     *)
(* click_element (click.py 290-298) a result that is not clicked,          *)
(* check_if_element_empty (fill.py 190-194) True, perform_fill (fill.py    *)
(* 269-273) a result that is not filled.  "none" when it does not.         *)
RecoveredBelow(step, error) ==
    CASE step = "needs_scrolling"
           /\ (is_navigation_error(error) \/ is_action_stopped_error(error)) -> "skipped"
      [] step = "scroll_into_view"
           /\ (is_navigation_error(error) \/ is_action_stopped_error(error)) -> "aborted"
      [] step \in {"click", "verify_click"}
           /\ (is_navigation_error(error) \/ is_action_stopped_error(error)) -> "not_clicked"
      [] step = "check_empty" /\ is_navigation_error(error) -> "empty"
      [] step \in {"fill", "verify_fill"} /\ is_navigation_error(error) -> "not_filled"
      [] OTHER -> "none"

(* The step is inside the try of the operation: the URL before the action  *)
(* is read before it (navigation.py 346-352, click.py 428-434).            *)
InsideTry(step) == step # "start_url"

(* The test of the except clause at the boundary: navigation.py 401-408,   *)
(* click.py 519-528, fill.py 407-411.                                      *)
Catches(fn, error) ==
    IF fn = "fill_text_area"
    THEN is_navigation_error(error)
    ELSE is_navigation_error(error) \/ is_action_stopped_error(error)

(* The not-completed result built at the boundary. *)
Interrupted(a) ==
    IF a.fn = "click_button" THEN ActionReturn(a, FALSE, TRUE, TRUE)
                             ELSE ActionReturn(a, FALSE, FALSE, FALSE)

Traced(a) == [a EXCEPT !.trace = Append(a.trace, a.pc)]

ActionAfterRaise(a, error) ==
    LET b == [a EXCEPT !.below = error] IN
    IF RecoveredBelow(a.pc, error) # "none"
    THEN ActionAfter([b EXCEPT !.caught = "below"], RecoveredBelow(a.pc, error))
    ELSE IF InsideTry(a.pc) /\ Catches(a.fn, error)
         THEN Interrupted([b EXCEPT !.caught = "boundary"])
         ELSE [b EXCEPT !.pc = "raised", !.error = error]

OperationRunning == op_call.kind = "action" /\ op_call.pc \notin {"returned", "raised"}

(* goto / click_button / fill_text_area is called. *)
ActionCall(fn, verify) ==
    /\ cpu = Idle
    /\ op_call = NoOp
    /\ op_call' = [NoOperation EXCEPT !.fn = fn, !.verify = verify, !.pc = FirstStep(fn)]
    /\ UNCHANGED <<now, trackerVars, wfi, wfi_obs, navVars, trigVars, in_flight>>

(* The lower-layer call of the current step returns. *)
ActionStepReturns(outcome) ==
    /\ OperationRunning
    /\ outcome \in Outcomes(op_call.pc)
    /\ op_call' = ActionAfter(Traced(op_call), outcome)
    /\ UNCHANGED <<now, trackerVars, wfi, wfi_obs, navVars, trigVars, in_flight>>

(* The lower-layer call of the current step raises. *)
ActionStepRaises(error) ==
    /\ OperationRunning
    /\ error \in Raisable(op_call.pc)
    /\ op_call' = ActionAfterRaise(Traced(op_call), error)
    /\ UNCHANGED <<now, trackerVars, wfi, wfi_obs, navVars, trigVars, in_flight>>

InitAct == InitNav

NextAct ==
    \/ \E fn \in SafeOperations, verify \in BOOLEAN : ActionCall(fn, verify)
    \/ \E outcome \in {"ok", "needed", "skipped", "empty", "occupied", "navigated",
                       "stayed", "verified", "unverified"} :
          ActionStepReturns(outcome)
    \/ \E error \in ActionErrors : ActionStepRaises(error)

SpecAct == InitAct /\ [][NextAct]_vars

\* C27: goto, click_button and fill_text_area never end by raising a
\* navigation error or an ActionStoppedError that a lower layer raised: a
\* call that raised raised another exception; an error caught at the
\* boundary gives a result that is not completed; and every other exception
\* of a lower layer is raised by the call unchanged.
C27_NavigationErrorsNeverEscape ==
    op_call.kind = "action" =>
        /\ op_call.pc = "raised" =>
              /\ ~is_navigation_error(op_call.error)
              /\ ~is_action_stopped_error(op_call.error)
        /\ (op_call.pc = "returned" /\ op_call.caught = "boundary") =>
              ~op_call.result.completed
        /\ (op_call.below # NoError
              /\ ~is_navigation_error(op_call.below)
              /\ ~is_action_stopped_error(op_call.below)) =>
              (op_call.pc = "raised" /\ op_call.error = op_call.below)

Position(trace, step) ==
    IF \E i \in DOMAIN trace : trace[i] = step
    THEN CHOOSE i \in DOMAIN trace : trace[i] = step
    ELSE 0

\* C29: in click_button the verification predicate is invoked only after
\* the navigation check, and only when that check detected no navigation;
\* a call that detected navigation returns clicked = true, navigated = true,
\* verified = true without having invoked the predicate.
C29_VerificationOnlyAfterNavigationCheck ==
    (op_call.kind = "action" /\ op_call.fn = "click_button") =>
        /\ Position(op_call.trace, "verify_click") > 0 =>
              /\ Position(op_call.trace, "detect_navigation") > 0
              /\ Position(op_call.trace, "detect_navigation")
                    < Position(op_call.trace, "verify_click")
              /\ op_call.detected = "stayed"
        /\ (op_call.pc = "returned" /\ op_call.detected = "navigated") =>
              /\ op_call.result = [completed |-> TRUE, navigated |-> TRUE,
                                   verified |-> TRUE]
              /\ Position(op_call.trace, "verify_click") = 0

(***************************************************************************)
(* The getters is_visible, is_enabled, count (elements/visibility.py) and  *)
(* text_content (elements/content.py): a sequence of engine calls inside   *)
(* one try.                                                                *)
(***************************************************************************)
Getters == {"is_visible", "is_enabled", "count", "text_content"}

(* The selector a getter is given: a CSS selector or a text selector      *)
(* (SeleniumTextSelector under selenium, visibility.py 143-161).           *)
SelectorKinds == {"css", "text"}

(* The engine calls of a getter, in order. *)
GetterSteps(fn, selector) ==
    CASE fn = "is_visible" ->
            IF engine = "playwright" THEN <<"locate", "wait_for">>
                                     ELSE <<"locate", "is_displayed">>
      [] fn = "is_enabled" ->
            IF engine = "playwright"
            THEN <<"evaluate">>
            ELSE <<"locate", "is_enabled", "get_attribute", "get_attribute">>
      [] fn = "count" ->
            IF engine = "playwright" THEN <<"count">>
            ELSE IF selector = "text" THEN <<"execute_script">>
                                      ELSE <<"find_elements">>
      [] fn = "text_content" -> <<"locate", "get_text_content">>

NoGetter == [kind |-> "getter", fn |-> "count", selector |-> "css", pc |-> "none", step |-> 0,
             below |-> NoError, error |-> NoError, result |-> "none"]

GetterStep(g) == GetterSteps(g.fn, g.selector)[g.step]

(* An engine call returned: the getter goes on, or returns its value; a    *)
(* lookup that finds no element returns the sentinel (visibility.py 46-47, *)
(* 102-103, content.py 44-45).                                             *)
GetterAfter(g, found) ==
    IF ~found
    THEN [g EXCEPT !.pc = "returned", !.result = "sentinel"]
    ELSE IF g.step = Len(GetterSteps(g.fn, g.selector))
         THEN [g EXCEPT !.pc = "returned", !.result = "value"]
         ELSE [g EXCEPT !.step = g.step + 1]

(* An engine call raised.  is_visible: the inner except of visibility.py   *)
(* 42-43 returns False for whatever wait_for raises, the outer one (49-53) *)
(* tests is_navigation_error.  is_enabled: the return False of line 120    *)
(* follows the if of line 118, it is not inside it.  count: 169-173.       *)
(* text_content: content.py 47-51.                                         *)
GetterAfterRaise(g, error) ==
    LET h == [g EXCEPT !.below = error] IN
    IF g.fn = "is_visible" /\ GetterStep(g) = "wait_for"
    THEN [h EXCEPT !.pc = "returned", !.result = "sentinel"]
    ELSE IF g.fn = "is_enabled"
         THEN [h EXCEPT !.pc = "returned", !.result = "sentinel"]
         ELSE IF is_navigation_error(error)
              THEN [h EXCEPT !.pc = "returned", !.result = "sentinel"]
              ELSE [h EXCEPT !.pc = "raised", !.error = error]

GetterRunning == op_call.kind = "getter" /\ op_call.pc = "running"

GetterCall(fn, selector) ==
    /\ cpu = Idle
    /\ op_call = NoOp
    /\ op_call' = [NoGetter EXCEPT !.fn = fn, !.selector = selector, !.pc = "running", !.step = 1]
    /\ UNCHANGED <<now, trackerVars, wfi, wfi_obs, navVars, trigVars, in_flight>>

GetterEngineReturns(found) ==
    /\ GetterRunning
    /\ ~found => GetterStep(op_call) = "locate" /\ engine = "selenium"
    /\ op_call' = GetterAfter(op_call, found)
    /\ UNCHANGED <<now, trackerVars, wfi, wfi_obs, navVars, trigVars, in_flight>>

GetterEngineRaises(error) ==
    /\ GetterRunning
    /\ error.cls # "ActionStoppedError"
    /\ op_call' = GetterAfterRaise(op_call, error)
    /\ UNCHANGED <<now, trackerVars, wfi, wfi_obs, navVars, trigVars, in_flight>>

InitGet == InitNav

NextGet ==
    \/ \E fn \in Getters, selector \in SelectorKinds : GetterCall(fn, selector)
    \/ \E found \in BOOLEAN : GetterEngineReturns(found)
    \/ \E error \in ActionErrors : GetterEngineRaises(error)

SpecGet == InitGet /\ [][NextGet]_vars

\* C28: is_visible, is_enabled, count and text_content return their
\* sentinel instead of raising only for a navigation error: when an engine
\* call raised a navigation error the getter returns the sentinel, and when
\* it raised any other exception the getter raises that exception.
C28_OnlyNavigationErrorsBecomeSentinels ==
    (op_call.kind = "getter" /\ op_call.below # NoError) =>
        IF is_navigation_error(op_call.below)
        THEN op_call.pc = "returned" /\ op_call.result = "sentinel"
        ELSE op_call.pc = "raised" /\ op_call.error = op_call.below

(***************************************************************************)
(* The listeners of the NavigationManager: on(), off() and the             *)
(* notifications of _on_url_change (navigation_manager.py 99-119,          *)
(* 239-247).  A callback is called with the event's data; it returns or    *)
(* raises.  Each registration gets a number, kept beside the callback.     *)
(***************************************************************************)
MaxRegistrations == 3

Callbacks == {"f", "g"}

ListenerEvents == {"on_url_change", "on_navigation_start"}

NoRound == [url_regs |-> <<>>, start_regs |-> <<>>, removed |-> {}, did |-> <<>>,
            raised |-> FALSE]

NoLog == [kind |-> "listeners", registered |-> 0,
          regs |-> [on_url_change |-> <<>>, on_navigation_start |-> <<>>],
          removed |-> {}, rounds |-> 0, round |-> NoRound]

FirstIndex(seq, x) ==
    CHOOSE k \in DOMAIN seq : seq[k] = x /\ \A j \in 1..(k - 1) : seq[j] # x

RemoveAt(seq, i) == SubSeq(seq, 1, i - 1) \o SubSeq(seq, i + 1, Len(seq))

(* The log of the registrations and of the last notification, empty until *)
(* the first on().                                                         *)
Log == IF op_call = NoOp THEN NoLog ELSE op_call

(* on(event, callback): lines 239-242; an unknown event is ignored. *)
ListenerOn(event, callback) ==
    /\ cpu = Idle
    /\ op_call.kind \in {"none", "listeners"}
    /\ Log.registered < MaxRegistrations
    /\ IF event \in DOMAIN nav_listeners
       THEN /\ nav_listeners' = [nav_listeners EXCEPT ![event] = Append(@, callback)]
            /\ op_call' = [Log EXCEPT
                             !.registered = @ + 1,
                             !.regs[event] = Append(@, Log.registered + 1)]
       ELSE UNCHANGED <<nav_listeners, op_call>>
    /\ UNCHANGED <<page_url, is_navigating, last_url, abort_controller, events_set,
                   events_made, nav_subs, is_listening, network_tracker, nav_call,
                   ready_call, nav_obs>>
    /\ UNCHANGED <<trigVars, netVars, trackerVars>>
    /\ UNCHANGED in_flight

(* off(event, callback): lines 244-247; list.remove takes out the first    *)
(* occurrence of the callback.                                             *)
ListenerOff(event, callback) ==
    /\ cpu = Idle
    /\ op_call.kind \in {"none", "listeners"}
    /\ IF event \in DOMAIN nav_listeners /\ callback \in Range(nav_listeners[event])
       THEN LET i == FirstIndex(nav_listeners[event], callback) IN
            /\ nav_listeners' = [nav_listeners EXCEPT ![event] = RemoveAt(@, i)]
            /\ op_call' = [Log EXCEPT
                             !.regs[event] = RemoveAt(@, i),
                             !.removed = @ \cup {Log.regs[event][i]}]
       ELSE UNCHANGED <<nav_listeners, op_call>>
    /\ UNCHANGED <<page_url, is_navigating, last_url, abort_controller, events_set,
                   events_made, nav_subs, is_listening, network_tracker, nav_call,
                   ready_call, nav_obs>>
    /\ UNCHANGED <<trigVars, netVars, trackerVars>>
    /\ UNCHANGED in_flight

(* The calls of one event's loop, in the order of the list. *)
Calls(event) ==
    [i \in 1..Len(nav_listeners[event]) |->
        [event |-> event, callback |-> nav_listeners[event][i],
         reg |-> Log.regs[event][i]]]

AbortStep == [event |-> "abort", callback |-> "", reg |-> 0]

StartListenersFirst(url_calls, start_calls) == <<AbortStep>> \o start_calls \o url_calls

(* Lines 107-119 in order: the abort signal is set and replaced, then the  *)
(* on_url_change loop, then the on_navigation_start loop.                  *)
UrlChangeSteps(url_calls, start_calls) == <<AbortStep>> \o url_calls \o start_calls

(* The page navigates its main frame to another URL and the handler runs;  *)
(* raises_at is the call that raises, 0 when every callback returns: the   *)
(* exception leaves _on_url_change and the calls after it are not made.    *)
ListenerUrlChange(url, raises_at) ==
    /\ cpu = Idle
    /\ op_call.kind \in {"none", "listeners"}
    /\ nav_subs > 0
    /\ url # last_url
    /\ page_url' = url
    /\ OnUrlChange(url)
    /\ LET steps == UrlChangeSteps(Calls("on_url_change"), Calls("on_navigation_start"))
       IN  /\ raises_at \in 0..(Len(steps) - 1)
           /\ op_call' = [Log EXCEPT
                 !.rounds = @ + 1,
                 !.round = [url_regs |-> Log.regs.on_url_change,
                            start_regs |-> Log.regs.on_navigation_start,
                            removed |-> Log.removed,
                            did |-> IF raises_at = 0 THEN steps
                                    ELSE SubSeq(steps, 1, raises_at + 1),
                            raised |-> raises_at # 0]]
    /\ UNCHANGED <<nav_subs, is_listening, nav_listeners, network_tracker,
                   nav_call, ready_call>>
    /\ UNCHANGED <<netVars, trackerVars>>
    /\ UNCHANGED in_flight

InitListen ==
    /\ InitNav
    /\ engine = "playwright"

NextListen ==
    \/ \E event \in ListenerEvents \cup {"on_load"}, callback \in Callbacks :
          ListenerOn(event, callback)
    \/ \E event \in ListenerEvents \cup {"on_load"}, callback \in Callbacks :
          ListenerOff(event, callback)
    \/ \E url \in PageUrls, raises_at \in 0..(2 * MaxRegistrations) :
          ListenerUrlChange(url, raises_at)

SpecListen == InitListen /\ [][NextListen]_vars

Notified == [i \in 1..(Len(op_call.round.did) - 1) |-> op_call.round.did[i + 1].reg]

Registered == op_call.round.url_regs \o op_call.round.start_regs

NotifiedInOrder ==
    /\ op_call.round.did[1] = AbortStep
    /\ Len(Notified) <= Len(Registered)
    /\ Notified = SubSeq(Registered, 1, Len(Notified))
    /\ \A i \in DOMAIN Notified : Notified[i] \notin op_call.round.removed

MaxPatternLen == 2

MaxUrlLen == 3

WordChars == {"a", "1"}

Digits == {"1"}

PatternChars == WordChars \cup {"/", ":", "*"}

UrlChars == WordChars \cup {"/"}

StringsOver(chars, n) == UNION {[1..k -> chars] : k \in 0..n}

Literal(c) == [t |-> "lit", c |-> c, name |-> <<>>]

AnyRun == [t |-> ".*", c |-> "", name |-> <<>>]

Group(name) == [t |-> "group", c |-> "", name |-> name]

(* The end of the longest run of word characters that starts at i: the     *)
(* greedy \w+ of line 69.                                                  *)
RECURSIVE WordEnd(_, _)
WordEnd(pattern, i) ==
    IF i < Len(pattern) /\ pattern[i + 1] \in WordChars
    THEN WordEnd(pattern, i + 1)
    ELSE i

(* re.escape(pattern).replace(r"\*", ".*"), line 62. *)
WildcardRegex(pattern) ==
    [i \in 1..Len(pattern) |->
        IF pattern[i] = "*" THEN AnyRun ELSE Literal(pattern[i])]

(* re.sub(r":(\w+)", r"(?P<\1>[^/]+)", pattern), line 69: every ":" that  *)
(* is followed by word characters becomes a group named by them; the rest  *)
(* of the pattern is left as it is.                                        *)
RECURSIVE ParamRegex(_, _)
ParamRegex(pattern, i) ==
    IF i > Len(pattern) THEN <<>>
    ELSE IF pattern[i] = ":" /\ i < Len(pattern) /\ pattern[i + 1] \in WordChars
         THEN <<Group(SubSeq(pattern, i + 1, WordEnd(pattern, i + 1)))>>
                 \o ParamRegex(pattern, WordEnd(pattern, i + 1) + 1)
         ELSE <<Literal(pattern[i])>> \o ParamRegex(pattern, i + 1)

(* re.compile, line 70, rejects a group whose name starts with a digit and *)
(* a name used by two groups (re.error).                                   *)
Compiles(regex) ==
    /\ \A k \in DOMAIN regex :
          regex[k].t = "group" => regex[k].name[1] \notin Digits
    /\ \A k, l \in DOMAIN regex :
          (regex[k].t = "group" /\ regex[l].t = "group" /\ k # l)
             => regex[k].name # regex[l].name

(* The regular expression from its element k on matches url from pos on. *)
RECURSIVE MatchFrom(_, _, _, _)
MatchFrom(regex, k, url, pos) ==
    IF k > Len(regex) THEN TRUE
    ELSE CASE regex[k].t = "lit" ->
                 /\ pos <= Len(url)
                 /\ url[pos] = regex[k].c
                 /\ MatchFrom(regex, k + 1, url, pos + 1)
           [] regex[k].t = ".*" ->
                 \E n \in pos..(Len(url) + 1) : MatchFrom(regex, k + 1, url, n)
           [] regex[k].t = "group" ->
                 \E n \in (pos + 1)..(Len(url) + 1) :
                    /\ \A m \in pos..(n - 1) : url[m] # "/"
                    /\ MatchFrom(regex, k + 1, url, n)

(* regex.search(url) is not None, lines 64 and 71. *)
Search(regex, url) == \E pos \in 1..(Len(url) + 1) : MatchFrom(regex, 1, url, pos)

(* make_url_condition(pattern) for a string, lines 58-74: what it builds,  *)
(* or the error it raises.                                                 *)
MakeUrlCondition(pattern) ==
    IF "*" \in Range(pattern)
    THEN [made |-> "wildcard", regex |-> WildcardRegex(pattern), pattern |-> pattern]
    ELSE IF ":" \in Range(pattern)
         THEN IF Compiles(ParamRegex(pattern, 1))
              THEN [made |-> "express", regex |-> ParamRegex(pattern, 1),
                    pattern |-> pattern]
              ELSE [made |-> "re.error", regex |-> <<>>, pattern |-> pattern]
         ELSE [made |-> "plain", regex |-> <<>>, pattern |-> pattern]

(* Calling the predicate that was built. *)
ConditionHolds(condition, url) ==
    IF condition.made = "plain"
    THEN url = condition.pattern \/ IsPrefix(condition.pattern, url)
    ELSE Search(condition.regex, url)

(* all_conditions, any_condition, not_condition: lines 80-115. *)
all_conditions(conditions, url) ==
    \A i \in DOMAIN conditions : ConditionHolds(conditions[i], url)

any_condition(conditions, url) ==
    \E i \in DOMAIN conditions : ConditionHolds(conditions[i], url)

not_condition(condition, url) == ~ConditionHolds(condition, url)

NoEvaluation == [kind |-> "condition", pattern |-> <<>>, other |-> <<>>,
                 url |-> <<>>, made |-> "none", raised |-> FALSE,
                 result |-> FALSE, all_result |-> FALSE, any_result |-> FALSE,
                 not_result |-> FALSE]

(* A condition is made from pattern and called with url; when both         *)
(* patterns give a condition the three combinators are called as well.     *)
EvaluateCondition(pattern, other, url) ==
    /\ cpu = Idle
    /\ op_call = NoOp
    /\ LET c == MakeUrlCondition(pattern)
           d == MakeUrlCondition(other)
       IN  op_call' =
             IF c.made = "re.error" \/ d.made = "re.error"
             THEN [NoEvaluation EXCEPT !.pattern = pattern, !.other = other,
                                       !.url = url, !.made = c.made,
                                       !.raised = TRUE]
             ELSE [NoEvaluation EXCEPT !.pattern = pattern, !.other = other,
                                       !.url = url, !.made = c.made,
                                       !.result = ConditionHolds(c, url),
                                       !.all_result = all_conditions(<<c, d>>, url),
                                       !.any_result = any_condition(<<c, d>>, url),
                                       !.not_result = not_condition(c, url)]
    /\ UNCHANGED <<now, trackerVars, wfi, wfi_obs, navVars, trigVars, in_flight>>

InitCond ==
    /\ InitNav
    /\ engine = "playwright"

NextCond ==
    /\ op_call = NoOp
    /\ \E pattern, other \in StringsOver(PatternChars, MaxPatternLen) \ {<<>>},
          url \in StringsOver(UrlChars, MaxUrlLen) :
          EvaluateCondition(pattern, other, url)

SpecCond == InitCond /\ [][NextCond]_vars

\* C31: make_url_condition gives a predicate for every string pattern (it
\* does not raise); a string without '*' and ':' matches a URL exactly when
\* the URL equals it or starts with it; all_conditions is the AND,
\* any_condition the OR and not_condition the negation of the results of
\* their operands.
C31_ConditionsFollowGrammar ==
    op_call.kind = "condition" =>
        /\ ~op_call.raised
        /\ op_call.made = "plain" =>
              (op_call.result <=> (op_call.url = op_call.pattern
                                     \/ IsPrefix(op_call.pattern, op_call.url)))
        /\ op_call.not_result = ~op_call.result
        /\ op_call.all_result =>  op_call.result
        /\ op_call.result => op_call.any_result

(***************************************************************************)
(* The error predicates of navigation_safety.py on the text of a message.  *)
(* A message is a sequence of pieces; a piece is a phrase written in lower *)
(* case or with capitals.  A pattern is in a message when one of the       *)
(* message's pieces is the pattern.                                        *)
(***************************************************************************)
MaxMessageLen == 2

(* navigation_safety.py 26-45 *)
NavigationPatterns ==
    {"navigation", "frame was detached", "execution context was destroyed",
     "target closed", "page closed", "browser closed", "target crashed",
     "context destroyed", "stale element reference", "no such element",
     "no such window", "session deleted", "target frame detached",
     "web element reference"}

(* navigation_safety.py 65-70 *)
TimeoutPatterns == {"timeout", "timed out", "exceeded", "deadline"}

Phrases == {"navigation", "target closed", "stale element reference", "timeout",
            "timed out", "exceeded", "deadline", "boom"}

Pieces == [phrase : Phrases, capitals : BOOLEAN]

Messages == StringsOver(Pieces, MaxMessageLen)

(* The message as it is written: what a comparison without lower() sees. *)
AsWritten(message) == message

(* str(error).lower(), lines 23 and 63. *)
Lower(message) == [i \in DOMAIN message |-> [message[i] EXCEPT !.capitals = FALSE]]

(* any(pattern in error_message for pattern in patterns), lines 49 and 72. *)
HasPattern(message, patterns) ==
    \E i \in DOMAIN message : ~message[i].capitals /\ message[i].phrase \in patterns

(* is_navigation_error on an error with a message, lines 13-49. *)
IsNavigationErrorMessage(cls, message) ==
    cls = "NavigationError" \/ HasPattern(Lower(message), NavigationPatterns)

(* is_timeout_error, lines 52-72. *)
is_timeout_error(message) == HasPattern(Lower(message), TimeoutPatterns)

NoClassification == [kind |-> "classification", cls |-> "Exception",
                     message |-> <<>>, by_context |-> FALSE,
                     navigation |-> FALSE, timeout |-> FALSE]

(* Both predicates are applied to an error of class cls with this message. *)
ClassifyError(cls, message) ==
    /\ cpu = Idle
    /\ op_call = NoOp
    /\ op_call' = [NoClassification EXCEPT
                     !.cls = cls,
                     !.message = message,
                     !.navigation = IsNavigationErrorMessage(cls, message),
                     !.timeout = is_timeout_error(message)]
    /\ UNCHANGED <<now, trackerVars, wfi, wfi_obs, navVars, trigVars, in_flight>>

(* The message of the error an ActionContext raises, lines 149 and 166 of  *)
(* page_trigger_manager.py: f"Action '{self.trigger_name}' was stopped".   *)
StoppedMessage(trigger_name) ==
    <<[phrase |-> "action '", capitals |-> TRUE]>> \o trigger_name
         \o <<[phrase |-> "' was stopped", capitals |-> FALSE]>>

(* check_stopped / wait of a context whose trigger has this name raises    *)
(* ActionStoppedError, and the error is classified.                        *)
ContextRaisesStopped(trigger_name) ==
    /\ cpu = Idle
    /\ op_call = NoOp
    /\ op_call' = [NoClassification EXCEPT
                     !.cls = "ActionStoppedError",
                     !.message = StoppedMessage(trigger_name),
                     !.by_context = TRUE,
                     !.navigation = IsNavigationErrorMessage("ActionStoppedError",
                                                             StoppedMessage(trigger_name)),
                     !.timeout = is_timeout_error(StoppedMessage(trigger_name))]
    /\ UNCHANGED <<now, trackerVars, wfi, wfi_obs, navVars, trigVars, in_flight>>

InitErr ==
    /\ InitNav
    /\ engine = "playwright"

NextErr ==
    \/ \E cls \in ErrorClasses, message \in Messages : ClassifyError(cls, message)
    \/ \E trigger_name \in StringsOver(Pieces, 1) : ContextRaisesStopped(trigger_name)

SpecErr == InitErr /\ [][NextErr]_vars

\* C32: is_navigation_error is true exactly when the error is a
\* NavigationError or its message, in whatever case it is written, contains
\* one of the navigation patterns; is_timeout_error is true exactly when the
\* message, in whatever case, contains 'timeout', 'timed out', 'exceeded' or
\* 'deadline'.
C32_ClassifiedByMessagePattern ==
    op_call.kind = "classification" =>
        /\ op_call.navigation <=>
              \/ op_call.cls = "NavigationError"
              \/ \E i \in DOMAIN op_call.message :
                    op_call.message[i].phrase \in NavigationPatterns
        /\ op_call.timeout <=>
              \E i \in DOMAIN op_call.message :
                 op_call.message[i].phrase \in TimeoutPatterns

C32_Witness ==
    /\ op_call.kind = "classification"
    /\ ~op_call.by_context
    /\ op_call.cls = "Exception"
    /\ op_call.navigation
    /\ op_call.timeout
    /\ \E i \in DOMAIN op_call.message : op_call.message[i].capitals

\* C36: no ActionStoppedError raised by an ActionContext is classified as a
\* navigation error by is_navigation_error, whatever the trigger's name.
C36_StoppedIsNeverNavigation ==
    (op_call.kind = "classification" /\ op_call.by_context) => ~op_call.navigation

(***************************************************************************)
(* The abortable wait: wait(log, ms, reason, abort_signal) of              *)
(* utilities/wait.py 35-90 and BrowserCommander.wait of factory.py         *)
(* 150-169.  A signal is the number of an asyncio.Event, 0 for None; the   *)
(* events that are set are in events_set.                                  *)
(***************************************************************************)
NoSleep == [kind |-> "wait", pc |-> "none", ms |-> 0, signal |-> 0,
            commander |-> FALSE, start_time |-> 0, wake |-> 0,
            set_at_entry |-> FALSE, url_changed |-> FALSE,
            url_changed_before |-> FALSE, completed |-> FALSE,
            aborted |-> FALSE, error |-> "none", ended_at |-> 0]

WaitReturns(w, completed, aborted) ==
    [w EXCEPT !.pc = "returned", !.completed = completed, !.aborted = aborted,
              !.ended_at = now]

(* wait.py 54-88 up to the first await. *)
WaitEnters(w) ==
    IF w.ms = 0
    THEN [w EXCEPT !.pc = "raised", !.error = "ValueError"]
    ELSE IF w.signal # 0 /\ w.signal \in events_set
         THEN WaitReturns([w EXCEPT !.set_at_entry = TRUE], FALSE, TRUE)
         ELSE [w EXCEPT !.pc = "sleep", !.wake = now + w.ms]

(* wait(log, ms, reason, abort_signal) called with any signal or none. *)
WaitCall(ms, signal) ==
    /\ cpu = Idle
    /\ op_call = NoOp
    /\ op_call' = WaitEnters([NoSleep EXCEPT !.ms = ms, !.signal = signal,
                                             !.start_time = now])
    /\ UNCHANGED <<now, trackerVars, wfi, wfi_obs, navVars, trigVars, in_flight>>

(* commander.wait(ms): factory.py 161-168 passes get_abort_signal(), the   *)
(* manager's current event.                                                *)
CommanderWait(ms) ==
    /\ cpu = Idle
    /\ op_call = NoOp
    /\ op_call' = WaitEnters([NoSleep EXCEPT
                                !.ms = ms, !.signal = abort_controller,
                                !.commander = TRUE, !.start_time = now,
                                !.url_changed_before = (nav_obs.url_changes > 0)])
    /\ UNCHANGED <<now, trackerVars, wfi, wfi_obs, navVars, trigVars, in_flight>>

(* The await of wait.py 69-72 / 81 is over: the event was set (aborted),   *)
(* or the time is up (completed).                                          *)
WaitResume ==
    /\ cpu = Idle
    /\ op_call.kind = "wait"
    /\ op_call.pc = "sleep"
    /\ IF op_call.signal # 0 /\ op_call.signal \in events_set
       THEN op_call' = WaitReturns(op_call, FALSE, TRUE)
       ELSE /\ now >= op_call.wake
            /\ op_call' = WaitReturns(op_call, TRUE, FALSE)
    /\ UNCHANGED <<now, trackerVars, wfi, wfi_obs, navVars, trigVars, in_flight>>

(* The page navigates its main frame while the wait sleeps and its time    *)
(* is not up; _on_frame_navigated runs if it is subscribed.                *)
PageNavigatesDuringWait(url) ==
    /\ cpu = Idle
    /\ op_call.kind = "wait"
    /\ op_call.pc = "sleep"
    /\ now < op_call.wake
    /\ url # page_url
    /\ page_url' = url
    /\ op_call' = [op_call EXCEPT !.url_changed = TRUE]
    /\ IF nav_subs > 0 /\ url # last_url
       THEN OnUrlChange(url)
       ELSE UNCHANGED <<last_url, abort_controller, events_made, events_set,
                        is_navigating, nav_obs, trigVars>>
    /\ UNCHANGED <<nav_subs, is_listening, nav_listeners, network_tracker,
                   nav_call, ready_call>>
    /\ UNCHANGED <<netVars, trackerVars>>
    /\ UNCHANGED in_flight

(* Time passes while the wait sleeps undisturbed. *)
WaitTimePasses ==
    /\ op_call.kind = "wait"
    /\ op_call.pc = "sleep"
    /\ now < op_call.wake
    /\ ~(op_call.signal # 0 /\ op_call.signal \in events_set)
    /\ Tick

InitWait == InitNav

NextWait ==
    \/ \E url \in PageUrls : op_call = NoOp /\ FrameNavigated("main", url)
    \/ \E ms \in 0..MaxTimeout, signal \in 0..(MaxUrlChanges + 1) : WaitCall(ms, signal)
    \/ \E ms \in 0..MaxTimeout : CommanderWait(ms)
    \/ WaitResume
    \/ \E url \in PageUrls : PageNavigatesDuringWait(url)
    \/ WaitTimePasses

SpecWait == InitWait /\ [][NextWait]_vars

\* C33: a wait never raises and returns exactly one of completed and
\* aborted: aborted without sleeping when its signal is set at entry,
\* aborted when the signal fires before ms have elapsed, completed
\* otherwise and when no signal is given; for commander.wait a URL change
\* of the page during the wait aborts it, and without one it completes,
\* whatever URL changes happened before the call.
C33_WaitCompletesOrAborts ==
    op_call.kind = "wait" =>
        /\ op_call.pc # "raised"
        /\ op_call.pc = "returned" =>
              /\ op_call.completed # op_call.aborted
              /\ op_call.set_at_entry =>
                    (op_call.aborted /\ op_call.ended_at = op_call.start_time)
              /\ op_call.aborted => op_call.signal \in events_set
              /\ op_call.completed =>
                    op_call.ended_at - op_call.start_time >= op_call.ms
              /\ op_call.signal = 0 => op_call.completed
              /\ op_call.commander =>
                    (op_call.aborted <=> op_call.url_changed)

\* C37: on playwright and on selenium alike a URL change of the page is
\* observed while the manager is listening: last_url is the URL of the page
\* whenever the manager is listening.
C37_UrlChangeObservedOnBothEngines ==
    is_listening => last_url = page_url

(***************************************************************************)
(* Frame-navigation events, one at a time: what the manager held before    *)
(* the event and what it holds after the handler returned.                 *)
(***************************************************************************)
NoFrameEvent ==
    [kind |-> "frame", frame |-> "main", url |-> UrlBlank, subscribed |-> FALSE,
     before |-> <<>>, after |-> <<>>]

ManagerState ==
    [last_url |-> last_url, abort_controller |-> abort_controller,
     events_set |-> events_set, is_navigating |-> is_navigating,
     notified |-> nav_obs.url_changes]

FrameEvent(frame, url) ==
    /\ FrameEmitted(frame, url)
    /\ op_call' = [NoFrameEvent EXCEPT
                     !.frame = frame,
                     !.url = page_url',
                     !.subscribed = nav_subs > 0,
                     !.before = ManagerState,
                     !.after = ManagerState']

InitFrame == InitNav

NextFrame ==
    \/ StartListening
    \/ StopListening
    \/ \E frame \in Frames, url \in PageUrls : FrameEvent(frame, url)

SpecFrame == InitFrame /\ [][NextFrame]_vars

\* C35: a frame-navigation event of a frame other than the main frame, or of
\* the main frame with the page at last_url, changes nothing in the manager:
\* the abort signal is neither fired nor replaced, is_navigating and last_url
\* keep their values and no listener is notified.
C35_OtherFrameOrSameUrlChangesNothing ==
    (/\ op_call.kind = "frame"
     /\ op_call.frame # "main" \/ op_call.url = op_call.before.last_url)
    => op_call.after = op_call.before

\* C35: a subscribed manager that has already seen a URL change receives a main-frame
\* event with the page at last_url.
C35_Witness ==
    /\ op_call.kind = "frame"
    /\ op_call.subscribed
    /\ op_call.frame = "main"
    /\ op_call.url = op_call.before.last_url
    /\ op_call.before.notified > 0

(***************************************************************************)
(* Stopping a trigger action                                               *)
(***************************************************************************)

(* The calls of an ActionContext that raise ActionStoppedError: wait,      *)
(* check_stopped (lines 146-149) and for_each, which calls check_stopped.  *)
StoppingCalls == {"wait", "for_each"}

(* The step is one of the URL-change handler or of destroy(). *)
UrlChangeOrDestroyStep ==
    \/ trig_obs'.handled # trig_obs.handled
    \/ destroy_call' # destroy_call

(* Where every action and every _check_triggers task stands. *)
Positions ==
    [contexts |-> [c \in DOMAIN contexts |->
                     <<contexts[c].apc, contexts[c].outcome, contexts[c].item>>],
     tasks |-> [t \in DOMAIN tasks |-> <<tasks[t].pc, tasks[t].index>>]]

KeepsPositions ==
    /\ \A c \in DOMAIN contexts : Positions'.contexts[c] = Positions.contexts[c]
    /\ \A t \in DOMAIN tasks : Positions'.tasks[t] = Positions.tasks[t]

\* C34: cancellation is cooperative only: a step of the URL-change handler or
\* of destroy() sets abort signals but moves no running action and no task
\* from where it stands, and an action ends with ActionStoppedError only at
\* a wait, check_stopped or for_each call; an action making none of these
\* calls runs until it returns or raises by itself.
C34_CancellationIsCooperative ==
    [][/\ UrlChangeOrDestroyStep => KeepsPositions
       /\ \A c \in DOMAIN contexts' :
             contexts'[c].outcome = "stopped"
                 => contexts'[c].action.op \in StoppingCalls]_vars

\* C34: an action that makes no wait, check_stopped or for_each call was
\* running during a URL change, its signal was set, and it ended by itself.
C34_Witness ==
    \E c \in DOMAIN contexts :
        /\ contexts[c].action.op \notin StoppingCalls
        /\ contexts[c].nav_seen
        /\ contexts[c].set_at_end
        /\ contexts[c].outcome = "raised"

\* C38: no trigger action is started for a superseded URL: in the step that
\* starts an action, the url of its context is the URL most recently
\* reported by a URL-change event.
C38_ActionStartsForLatestUrl ==
    [][\A c \in DOMAIN contexts' :
          c \notin DOMAIN contexts => contexts'[c].url = last_url']_vars

\* C39: each cleanup callback registered with on_cleanup is invoked at most
\* once over the lifetime of its context: the invocations made for a
\* context never outnumber its callbacks.
C39_CleanupCallbackRunsAtMostOnce ==
    \A c \in DOMAIN contexts :
        contexts[c].cleanups <= Len(contexts[c].cleanup_callbacks)

(* should_abort: lines 125-127; get_abort_signal returns _abort_controller. *)
should_abort ==
    /\ abort_controller # 0
    /\ abort_controller \in events_set

\* C40: should_abort() returns false in every reachable state: the signal
\* get_abort_signal() returns is never a fired one, because a URL change
\* replaces the signal in the step that fires it.
C40_ShouldAbortIsNeverTrue ==
    ~should_abort

\* C40: URL changes have fired earlier signals and the manager holds a signal.
C40_Witness ==
    /\ abort_controller # 0
    /\ nav_obs.url_changes > 0
    /\ events_set # {}
    /\ ~should_abort
====
